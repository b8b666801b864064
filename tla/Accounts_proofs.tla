---------------------------- MODULE Accounts_proofs ----------------------------
(***************************************************************************)
(* Proofs about the accounts: the sessions of a user, roles with their      *)
(* holders, and sign-in behind the login throttle.                          *)
(***************************************************************************)
EXTENDS Accounts, FiniteSetTheorems, TLAPS

-----------------------------------------------------------------------------
(***************************************************************************)
(* Sessions, for any number of browsers, requests and saves and any         *)
(* lifetimes: the ceiling of a session, the activity that keeps it, and     *)
(* that a revoked session is never accepted again.                          *)
(***************************************************************************)
UserRow == [version : Nat, active : BOOLEAN, password : Nat]

\* What is signed: a token starts at its login and ends within its lifetime.
Signed(t) ==
  /\ t \in Tokens /\ t.authTime = t.origin.at
  /\ t.exp <= t.origin.at + Ceiling(t.remember)

Saving == [op : Operations, entity : UserRow, columns : SUBSET DOMAIN user,
           ready : BOOLEAN, browser : Browsers, remember : BOOLEAN, login : Nat]
SaveFits(q) == q = NotSaving \/ q \in Saving

\* A request has the version its token had: it was compared on arrival.
Handling == [busy : {TRUE}, browser : Browsers, claims : Tokens, version : Nat]
RequestFits(r) ==
  \/ r = NotHandling
  \/ r \in Handling /\ Signed(r.claims) /\ r.version = r.claims.version

SessionsTyped ==
  /\ now \in Nat /\ saved \in Nat /\ group \in UserGroups /\ user \in UserRow
  /\ saves = [s \in Savers |-> saves[s]] /\ \A s \in Savers : SaveFits(saves[s])
  /\ cookie \in [Browsers -> Tokens \cup {NoToken}]
  /\ \A b \in Browsers : cookie[b] # NoToken => Signed(cookie[b])
  /\ handling = [h \in Handlers |-> handling[h]]
  /\ \A h \in Handlers : RequestFits(handling[h])
  /\ seen \in [Browsers -> Nat]

LEMMA CeilingType ==
  ASSUME NEW remember PROVE Ceiling(remember) \in Nat \ {0}
BY PolicyAssumption DEF Ceiling

LEMMA TokenIsSigned ==
  ASSUME now \in Nat, NEW version \in Nat, NEW at \in Nat, NEW login \in Nat,
         NEW remember \in BOOLEAN, RemainingAbsolute(at, remember) > 0
  PROVE  Signed(Token(version, at, remember, [login |-> login, at |-> at]))
<1> DEFINE o == [login |-> login, at |-> at]
           left == RemainingAbsolute(at, remember)
           exp == now + Lesser(IdleSeconds, left)
           t == [version |-> version, authTime |-> at, remember |-> remember,
                 exp |-> exp, origin |-> o]
<1>1. left \in Int /\ left > 0 /\ now + left = at + Ceiling(remember)
  BY CeilingType DEF RemainingAbsolute
<1>2. exp \in Nat /\ exp <= now + left
  BY <1>1, PolicyAssumption DEF Lesser
<1>3. Token(version, at, remember, o) = t
  BY DEF Token
<1>4. exp <= at + Ceiling(remember)
  BY <1>1, <1>2
<1> HIDE DEF exp, left
<1>5. t \in Tokens /\ t.authTime = at /\ t.origin.at = at /\ t.exp = exp
      /\ t.remember = remember
  BY <1>2 DEF Tokens
<1> HIDE DEF t
<1>6. QED
  BY <1>3, <1>4, <1>5 DEF Signed

LEMMA ChangedType ==
  ASSUME user \in UserRow, NEW o \in Operations
  PROVE  Changed(o) \in UserRow
<1>1. CASE o \in {"login", "updateMe"}
  BY <1>1 DEF Changed
<1>2. CASE o = "updateUserRole"
  BY <1>2 DEF Changed, UserRow
<1>3. CASE o = "resetPassword"
  <2> DEFINE first == [user EXCEPT !.version = user.version + 1]
  <2>1. first \in UserRow /\ Changed(o) = [first EXCEPT !.password = user.password + 1]
    BY <1>3 DEF Changed, UserRow
  <2>2. user.password + 1 \in Nat
    BY DEF UserRow
  <2> HIDE DEF first
  <2>3. QED
    BY <2>1, <2>2 DEF UserRow
<1>4. CASE o = "deactivate"
  <2> DEFINE first == [user EXCEPT !.version = user.version + 1]
  <2>1. first \in UserRow /\ Changed(o) = [first EXCEPT !.active = FALSE]
    BY <1>4 DEF Changed, UserRow
  <2> HIDE DEF first
  <2>2. QED
    BY <2>1 DEF UserRow
<1>5. CASE o = "reactivate"
  BY <1>5 DEF Changed, UserRow
<1>6. QED
  BY <1>1, <1>2, <1>3, <1>4, <1>5 DEF Operations

LEMMA OverwrittenType ==
  ASSUME user \in UserRow, NEW entity \in UserRow, NEW columns
  PROVE  Overwritten(user, entity, columns) \in UserRow
BY DEF Overwritten, UserRow

LEMMA SessionsInitTyped == SessionsInit => SessionsTyped
<1> SUFFICES ASSUME SessionsInit PROVE SessionsTyped
  OBVIOUS
<1>1. now \in Nat /\ saved \in Nat /\ group \in UserGroups /\ user \in UserRow
  BY DEF SessionsInit, UserRow
<1>2. /\ saves = [s \in Savers |-> saves[s]]
      /\ \A s \in Savers : SaveFits(saves[s])
  BY DEF SessionsInit, SaveFits
<1>3. /\ cookie \in [Browsers -> Tokens \cup {NoToken}] /\ seen \in [Browsers -> Nat]
      /\ \A b \in Browsers : cookie[b] # NoToken => Signed(cookie[b])
  BY DEF SessionsInit
<1>4. /\ handling = [h \in Handlers |-> handling[h]]
      /\ \A h \in Handlers : RequestFits(handling[h])
  BY DEF SessionsInit, RequestFits
<1>5. QED
  BY <1>1, <1>2, <1>3, <1>4 DEF SessionsTyped

\* What a step leaves alone stays as it was.
LEMMA SavesKept ==
  ASSUME SessionsTyped, saves' = saves, DOMAIN user' = DOMAIN user
  PROVE  /\ saves' = [s \in Savers |-> saves'[s]]
         /\ \A s \in Savers : SaveFits(saves[s])'
BY DEF SessionsTyped, SaveFits, Saving

LEMMA SaveStepTyped ==
  ASSUME SessionsTyped, NEW s \in Savers, NEW q, SaveFits(q),
         saves' = [saves EXCEPT ![s] = q], DOMAIN user' = DOMAIN user
  PROVE  /\ saves' = [x \in Savers |-> saves'[x]]
         /\ \A x \in Savers : SaveFits(saves[x])'
<1>1. \A x \in Savers : SaveFits(saves'[x])
  BY DEF SessionsTyped
<1>2. saves' = [x \in Savers |-> saves'[x]]
  BY DEF SessionsTyped
<1>3. QED
  BY <1>1, <1>2 DEF SaveFits, Saving

LEMMA RequestsKept ==
  ASSUME SessionsTyped, handling' = handling, group' = group
  PROVE  /\ handling' = [h \in Handlers |-> handling'[h]]
         /\ \A h \in Handlers : RequestFits(handling[h])'
BY DEF SessionsTyped, RequestFits, Handling, Signed, Ceiling

LEMMA RequestStepTyped ==
  ASSUME SessionsTyped, NEW h \in Handlers, NEW r, RequestFits(r),
         handling' = [handling EXCEPT ![h] = r], group' = group
  PROVE  /\ handling' = [x \in Handlers |-> handling'[x]]
         /\ \A x \in Handlers : RequestFits(handling[x])'
<1>1. \A x \in Handlers : RequestFits(handling'[x])
  BY DEF SessionsTyped
<1>2. handling' = [x \in Handlers |-> handling'[x]]
  BY DEF SessionsTyped
<1>3. QED
  BY <1>1, <1>2 DEF RequestFits, Handling, Signed, Ceiling

LEMMA CookieKept ==
  ASSUME SessionsTyped, cookie' = cookie, group' = group
  PROVE  /\ cookie' \in [Browsers -> Tokens \cup {NoToken}]
         /\ \A b \in Browsers : cookie'[b] # NoToken => Signed(cookie[b])'
BY DEF SessionsTyped, Signed, Ceiling

LEMMA CookieStepTyped ==
  ASSUME SessionsTyped, NEW b \in Browsers, NEW t, t = NoToken \/ Signed(t),
         cookie' = [cookie EXCEPT ![b] = t], group' = group
  PROVE  /\ cookie' \in [Browsers -> Tokens \cup {NoToken}]
         /\ \A x \in Browsers : cookie'[x] # NoToken => Signed(cookie[x])'
<1>1. t \in Tokens \cup {NoToken}
  BY DEF Signed
<1>2. cookie' \in [Browsers -> Tokens \cup {NoToken}]
  BY <1>1 DEF SessionsTyped
<1>3. \A x \in Browsers : cookie'[x] # NoToken => Signed(cookie'[x])
  BY DEF SessionsTyped
<1>4. QED
  BY <1>2, <1>3 DEF Signed, Ceiling

LEMMA LoadTyped ==
  ASSUME SessionsTyped, NEW s \in Savers, NEW o \in Operations,
         NEW b \in Browsers, NEW remember \in BOOLEAN, Load(s, o, b, remember)
  PROVE  SessionsTyped'
<1> DEFINE q == [op |-> o, entity |-> Changed(o), columns |-> {}, ready |-> FALSE,
                 browser |-> b, remember |-> remember, login |-> saved + 1]
<1>1. saves' = [saves EXCEPT ![s] = q]
  BY DEF Load
<1>2. Changed(o) \in UserRow /\ saved + 1 \in Nat
  BY ChangedType DEF SessionsTyped
<1>3. q \in Saving
  BY <1>2 DEF Saving
<1> HIDE DEF q
<1>4. SaveFits(q)
  BY <1>3 DEF SaveFits
<1>5. /\ user' = user /\ now' = now /\ group' = group /\ cookie' = cookie
      /\ handling' = handling /\ seen' = seen /\ saved' = saved + 1
  BY DEF Load
<1>6. QED
  BY <1>1, <1>2, <1>4, <1>5, SaveStepTyped, CookieKept, RequestsKept
     DEF SessionsTyped

LEMMA ReloadTyped ==
  ASSUME SessionsTyped, NEW s \in Savers, Reload(s)
  PROVE  SessionsTyped'
<1> DEFINE columns == Differing(saves[s].entity, user)
           q == [saves[s] EXCEPT !.columns = columns, !.ready = TRUE]
<1>1. saves' = [saves EXCEPT ![s] = q]
  BY DEF Reload, SessionsTyped
<1>2. saves[s] \in Saving
  BY DEF Reload, SessionsTyped, SaveFits, NotSaving
<1>3. columns \in SUBSET DOMAIN user
  BY DEF Differing
<1> HIDE DEF columns
<1>4. q \in Saving
  BY <1>2, <1>3 DEF Saving
<1> HIDE DEF q
<1>5. SaveFits(q)
  BY <1>4 DEF SaveFits
<1>6. /\ user' = user /\ now' = now /\ group' = group /\ cookie' = cookie
      /\ handling' = handling /\ seen' = seen /\ saved' = saved
  BY DEF Reload
<1>7. QED
  BY <1>1, <1>5, <1>6, SaveStepTyped, CookieKept, RequestsKept DEF SessionsTyped

LEMMA FlushTyped ==
  ASSUME SessionsTyped, NEW s \in Savers, Flush(s)
  PROVE  SessionsTyped'
<1> DEFINE q == saves[s]
<1>1. /\ user' = Overwritten(user, q.entity, q.columns)
      /\ saves' = [saves EXCEPT ![s] = NotSaving]
      /\ now' = now /\ group' = group /\ handling' = handling /\ saved' = saved
      /\ saves[s].op # "none"
  BY DEF Flush
<1>2. q \in Saving
  BY <1>1 DEF SessionsTyped, SaveFits, NotSaving
<1>3. /\ user' \in UserRow /\ DOMAIN user' = DOMAIN user
  BY <1>1, <1>2, OverwrittenType DEF SessionsTyped, Saving, Overwritten
<1>4. SaveFits(NotSaving)
  BY DEF SaveFits
<1>5. /\ cookie' \in [Browsers -> Tokens \cup {NoToken}]
      /\ \A x \in Browsers : cookie'[x] # NoToken => Signed(cookie[x])'
      /\ seen' \in [Browsers -> Nat]
  <2>1. CASE q.op = "login"
    <3> DEFINE t == Token(q.entity.version, now, q.remember,
                          [login |-> q.login, at |-> now])
    <3>1. /\ cookie' = [cookie EXCEPT ![q.browser] = t]
          /\ seen' = [seen EXCEPT ![q.browser] = now]
      BY <2>1 DEF Flush
    <3>2. /\ q.entity.version \in Nat /\ q.remember \in BOOLEAN /\ q.login \in Nat
          /\ q.browser \in Browsers /\ now \in Nat
      BY <1>2 DEF Saving, UserRow, SessionsTyped
    <3>3. RemainingAbsolute(now, q.remember) > 0
      <4>1. Ceiling(q.remember) \in Nat \ {0}
        BY CeilingType
      <4>2. QED
        BY <3>2, <4>1 DEF RemainingAbsolute
    <3>4. Signed(t)
      BY <3>2, <3>3, TokenIsSigned
    <3> HIDE DEF t
    <3>5. QED
      BY <1>1, <3>1, <3>2, <3>4, CookieStepTyped DEF SessionsTyped
  <2>2. CASE q.op # "login"
    <3>1. cookie' = cookie /\ seen' = seen
      BY <2>2 DEF Flush
    <3>2. QED
      BY <1>1, <3>1, CookieKept DEF SessionsTyped
  <2>3. QED
    BY <2>1, <2>2
<1> HIDE DEF q
<1>6. QED
  BY <1>1, <1>3, <1>4, <1>5, SaveStepTyped, RequestsKept DEF SessionsTyped

LEMMA LogoutTyped ==
  ASSUME SessionsTyped, NEW b \in Browsers, Logout(b)
  PROVE  SessionsTyped'
<1>1. /\ cookie' = [cookie EXCEPT ![b] = NoToken] /\ saves' = saves
      /\ now' = now /\ group' = group /\ handling' = handling /\ saved' = saved
      /\ seen' = seen /\ (user' = user \/ user' = [user EXCEPT !.version = @ + 1])
  BY DEF Logout
<1>2. user' \in UserRow /\ DOMAIN user' = DOMAIN user
  BY <1>1 DEF SessionsTyped, UserRow
<1>3. QED
  BY <1>1, <1>2, CookieStepTyped, SavesKept, RequestsKept DEF SessionsTyped

LEMMA ArriveTyped ==
  ASSUME SessionsTyped, NEW h \in Handlers, NEW b \in Browsers, Arrive(h, b)
  PROVE  SessionsTyped'
<1> DEFINE r == [busy |-> TRUE, browser |-> b, claims |-> cookie[b],
                 version |-> user.version]
<1>1. /\ handling' = [handling EXCEPT ![h] = r] /\ cookie[b] # NoToken
      /\ user.version = cookie[b].version
      /\ user' = user /\ now' = now /\ group' = group /\ cookie' = cookie
      /\ saves' = saves /\ seen' = seen /\ saved' = saved
  BY DEF Arrive, Valid
<1>2. Signed(cookie[b]) /\ user.version \in Nat
  BY <1>1 DEF SessionsTyped, UserRow
<1>3. r \in Handling /\ r.claims = cookie[b] /\ r.version = user.version
  BY <1>2 DEF Handling, Signed
<1> HIDE DEF r
<1>4. RequestFits(r)
  BY <1>1, <1>2, <1>3 DEF RequestFits
<1>5. QED
  BY <1>1, <1>4, SavesKept, CookieKept, RequestStepTyped DEF SessionsTyped

LEMMA AnswerTyped ==
  ASSUME SessionsTyped, NEW h \in Handlers, Answer(h)
  PROVE  SessionsTyped'
<1> DEFINE r == handling[h]
<1>1. /\ r.busy /\ handling' = [handling EXCEPT ![h] = NotHandling]
      /\ user' = user /\ now' = now /\ group' = group /\ saves' = saves
      /\ saved' = saved
      /\ seen' = seen \/ seen' = [seen EXCEPT ![r.browser] = now]
      /\ cookie' = IF Slides(r.claims)
                   THEN [cookie EXCEPT ![r.browser] = Refreshed(r)] ELSE cookie
  BY DEF Answer
<1>2. r \in Handling /\ Signed(r.claims)
  BY <1>1 DEF SessionsTyped, RequestFits, NotHandling
<1>3. RequestFits(NotHandling)
  BY DEF RequestFits
<1>4. seen' \in [Browsers -> Nat]
  BY <1>1 DEF SessionsTyped
<1>5. /\ cookie' \in [Browsers -> Tokens \cup {NoToken}]
      /\ \A x \in Browsers : cookie'[x] # NoToken => Signed(cookie[x])'
  <2>1. CASE Slides(r.claims)
    <3> DEFINE c == r.claims
    <3>1. /\ r.browser \in Browsers /\ r.version \in Nat /\ c.authTime \in Nat
          /\ c.remember \in BOOLEAN /\ c.origin.login \in Nat /\ c.origin.at \in Nat
          /\ c.origin = [login |-> c.origin.login, at |-> c.authTime]
      BY <1>2 DEF Handling, Signed, Tokens
    <3>2. RemainingAbsolute(c.authTime, c.remember) > 0
      BY <2>1 DEF Slides
    <3>3. Signed(Token(r.version, c.authTime, c.remember,
                       [login |-> c.origin.login, at |-> c.authTime]))
      BY <3>1, <3>2, TokenIsSigned DEF SessionsTyped
    <3>4. Signed(Refreshed(r))
      BY <3>1, <3>3 DEF Refreshed
    <3>5. cookie' = [cookie EXCEPT ![r.browser] = Refreshed(r)]
      BY <1>1, <2>1
    <3>6. QED
      BY <1>1, <3>1, <3>4, <3>5, CookieStepTyped
  <2>2. CASE ~Slides(r.claims)
    BY <1>1, <2>2, CookieKept
  <2>3. QED
    BY <2>1, <2>2
<1> HIDE DEF r
<1>6. QED
  BY <1>1, <1>3, <1>4, <1>5, SavesKept, RequestStepTyped DEF SessionsTyped

LEMMA ThrowTyped ==
  ASSUME SessionsTyped, NEW h \in Handlers, Throw(h)
  PROVE  SessionsTyped'
<1>1. RequestFits(NotHandling)
  BY DEF RequestFits
<1>2. QED
  BY <1>1, SavesKept, CookieKept, RequestStepTyped DEF Throw, SessionsTyped

LEMMA TickTyped == SessionsTyped /\ Tick => SessionsTyped'
<1> SUFFICES ASSUME SessionsTyped, Tick PROVE SessionsTyped'
  OBVIOUS
<1>1. now' \in Nat
  BY DEF Tick, SessionsTyped
<1>2. QED
  BY <1>1, SavesKept, CookieKept, RequestsKept DEF Tick, SessionsTyped

LEMMA SessionsNextTyped == SessionsTyped /\ [SessionsNext]_sessionVars => SessionsTyped'
<1> SUFFICES ASSUME SessionsTyped, [SessionsNext]_sessionVars PROVE SessionsTyped'
  OBVIOUS
<1>1. CASE UNCHANGED sessionVars
  BY <1>1, SavesKept, CookieKept, RequestsKept DEF sessionVars, SessionsTyped
<1>2. CASE SessionsNext
  BY <1>2, LoadTyped, ReloadTyped, FlushTyped, LogoutTyped, ArriveTyped,
     AnswerTyped, ThrowTyped, TickTyped DEF SessionsNext
<1>3. QED
  BY <1>1, <1>2

\* Every variable has its type: in particular no token is signed with an end
\* before the epoch, and a request that is handled has a verified token.
THEOREM SessionsTypeCorrect == SessionsSpec => []SessionsTypeOK
<1>1. SessionsTyped => SessionsTypeOK
  BY DEF SessionsTyped, SessionsTypeOK, UserRow, RequestFits, Handling
<1>2. QED
  BY <1>1, SessionsInitTyped, SessionsNextTyped, PTL DEF SessionsSpec

\* However often a token is re-issued, it ends at the latest one absolute
\* lifetime after the login it descends from.
THEOREM WithinCeilingHolds == SessionsSpec => []WithinCeiling
<1>1. SessionsTyped => WithinCeiling
  BY DEF SessionsTyped, WithinCeiling, Signed
<1>2. QED
  BY <1>1, SessionsInitTyped, SessionsNextTyped, PTL DEF SessionsSpec

-----------------------------------------------------------------------------
(* Revocation.  Logins are numbered; the version of a token tells whether  *)
(* its login was revoked, as long as no save of the whole row has written  *)
(* a version back.                                                         *)

\* No login under way has the number of a token, or of another login.
LoginsApart ==
  /\ \A o \in dead \cup Origins :
       o.login \in Nat /\ o.login <= saved /\ \A s \in Pending : saves[s].login # o.login
  /\ \A s, t \in Pending :
       saves[s].login <= saved /\ (saves[s].login = saves[t].login => s = t)

\* The token of a revoked login has an older version.
Older(t) ==
  t.version <= user.version /\ (t.origin \in dead => t.version < user.version)

Raising == {"updateUserRole", "resetPassword", "deactivate"}

\* An entity has the version of the row, or a later one if it revokes.
UpToDate(q) == IF q.op \in Raising THEN q.entity.version > user.version
                                   ELSE q.entity.version = user.version

RevokedAreOlder ==
  ~mixed => /\ \A s \in Pending : UpToDate(saves[s])
            /\ \A b \in Browsers : cookie[b] # NoToken => Older(cookie[b])
            /\ \A h \in Handlers : handling[h].busy => Older(handling[h].claims)

SessionInv == SessionsTyped /\ LoginsApart /\ RevokedAreOlder

LEMMA SessionsInitInv == SessionsInit => SessionInv
<1> SUFFICES ASSUME SessionsInit PROVE SessionInv
  OBVIOUS
<1>1. Pending = {} /\ Origins = {} /\ dead = {}
  BY DEF SessionsInit, Pending, Origins, NotSaving, NotHandling
<1>2. LoginsApart
  BY <1>1 DEF LoginsApart
<1>3. RevokedAreOlder
  BY <1>1 DEF SessionsInit, RevokedAreOlder, NotHandling
<1>4. QED
  BY <1>2, <1>3, SessionsInitTyped DEF SessionInv

\* Steps that issue no number: tokens are copied or dropped.
LEMMA TokensCopied ==
  ASSUME LoginsApart, Origins' \subseteq Origins, dead' \subseteq dead \cup Origins,
         saved' = saved, Pending' \subseteq Pending,
         \A s \in Pending' : saves'[s].login = saves[s].login
  PROVE  LoginsApart'
BY DEF LoginsApart

\* A token in a cookie, or claimed by a request, is one of the origins.
LEMMA OriginKnown ==
  /\ \A b \in Browsers : cookie[b] # NoToken => cookie[b].origin \in Origins
  /\ \A h \in Handlers : handling[h].busy => handling[h].claims.origin \in Origins
BY DEF Origins

LEMMA ClaimsType ==
  ASSUME SessionsTyped
  PROVE  \A h \in Handlers : handling[h].busy => handling[h].claims \in Tokens
<1> SUFFICES ASSUME NEW h \in Handlers, handling[h].busy
             PROVE  handling[h].claims \in Tokens
  OBVIOUS
<1>1. RequestFits(handling[h]) /\ handling[h] # NotHandling
  BY DEF SessionsTyped, NotHandling
<1>2. handling[h] \in Handling
  BY <1>1 DEF RequestFits
<1>3. QED
  BY <1>2 DEF Handling

LEMMA LoadInv ==
  ASSUME SessionInv, NEW s \in Savers, NEW o \in Operations,
         NEW b \in Browsers, NEW remember \in BOOLEAN, Load(s, o, b, remember)
  PROVE  LoginsApart' /\ RevokedAreOlder'
<1> USE DEF SessionInv
<1> DEFINE q == [op |-> o, entity |-> Changed(o), columns |-> {}, ready |-> FALSE,
                 browser |-> b, remember |-> remember, login |-> saved + 1]
<1>1. /\ saves' = [saves EXCEPT ![s] = q] /\ saved' = saved + 1 /\ saved \in Nat
      /\ user' = user /\ cookie' = cookie /\ handling' = handling /\ dead' = dead
      /\ mixed' = mixed /\ s \notin Pending
  BY DEF Load, SessionsTyped, Pending
<1>2. q.login = saved + 1 /\ q.op = o /\ q.entity = Changed(o)
  OBVIOUS
<1> HIDE DEF q
<1>3. /\ Origins' = Origins /\ Pending' \subseteq Pending \cup {s}
      /\ saves'[s] = q /\ \A x \in Pending : saves'[x] = saves[x]
  BY <1>1 DEF Origins, Pending, SessionsTyped
<1>4. LoginsApart'
  <2>1. ASSUME NEW k \in dead' \cup Origins'
        PROVE  /\ k.login \in Nat /\ k.login <= saved'
               /\ \A x \in Pending' : saves'[x].login # k.login
    <3>1. k.login \in Nat /\ k.login <= saved
      BY <1>1, <1>3 DEF LoginsApart
    <3>2. \A x \in Pending : saves[x].login # k.login
      BY <1>1, <1>3 DEF LoginsApart
    <3>3. k.login # q.login
      BY <1>1, <1>2, <3>1
    <3>4. QED
      BY <1>1, <1>3, <3>1, <3>2, <3>3
  <2>2. \A x \in Pending : saves[x].login \in Nat
    BY DEF SessionsTyped, SaveFits, Pending, NotSaving, Saving
  <2>3. ASSUME NEW x \in Pending', NEW y \in Pending'
        PROVE  saves'[x].login <= saved' /\ (saves'[x].login = saves'[y].login => x = y)
    <3>1. \A z \in Pending : saves[z].login <= saved /\ saves[z].login # q.login
      BY <1>1, <1>2, <2>2 DEF LoginsApart
    <3>2. saves'[x].login <= saved'
      BY <1>1, <1>2, <1>3, <2>2, <3>1
    <3>3. QED
      BY <1>3, <3>1, <3>2 DEF LoginsApart
  <2>4. QED
    BY <2>1, <2>3 DEF LoginsApart
<1>5. RevokedAreOlder'
  <2>1. UpToDate(q)
    <3>1. user.version \in Nat
      BY DEF SessionsTyped, UserRow
    <3>2. o \in Raising => Changed(o).version = user.version + 1
      BY DEF Raising, Changed, SessionsTyped, UserRow
    <3>3. o \in Operations \ Raising => Changed(o).version = user.version
      BY DEF Raising, Operations, Changed, SessionsTyped, UserRow
    <3>4. QED
      BY <1>2, <3>1, <3>2, <3>3 DEF UpToDate
  <2>2. QED
    BY <1>1, <1>3, <2>1 DEF RevokedAreOlder, UpToDate, Older
<1>6. QED
  BY <1>4, <1>5

LEMMA ReloadInv ==
  ASSUME SessionInv, NEW s \in Savers, Reload(s)
  PROVE  LoginsApart' /\ RevokedAreOlder'
<1> USE DEF SessionInv
<1> DEFINE columns == Differing(saves[s].entity, user)
           q == [saves[s] EXCEPT !.columns = columns, !.ready = TRUE]
<1>1. /\ saves' = [saves EXCEPT ![s] = q] /\ saves[s].op # "none"
      /\ user' = user /\ cookie' = cookie /\ handling' = handling /\ dead' = dead
      /\ mixed' = mixed /\ saved' = saved
  BY DEF Reload, SessionsTyped
<1>2. saves[s] \in Saving
  BY <1>1 DEF SessionsTyped, SaveFits, NotSaving
<1> HIDE DEF columns
<1>3. q.op = saves[s].op /\ q.entity = saves[s].entity /\ q.login = saves[s].login
  BY <1>2 DEF Saving
<1> HIDE DEF q
<1>4. /\ Origins' = Origins /\ Pending' = Pending
      /\ \A x \in Pending : /\ saves'[x].op = saves[x].op
                            /\ saves'[x].entity = saves[x].entity
                            /\ saves'[x].login = saves[x].login
  BY <1>1, <1>3 DEF Origins, Pending, SessionsTyped
<1>5. LoginsApart'
  BY <1>1, <1>4, TokensCopied
<1>6. RevokedAreOlder'
  BY <1>1, <1>4 DEF RevokedAreOlder, UpToDate, Older
<1>7. QED
  BY <1>5, <1>6

LEMMA ArriveInv ==
  ASSUME SessionInv, NEW h \in Handlers, NEW b \in Browsers, Arrive(h, b)
  PROVE  LoginsApart' /\ RevokedAreOlder'
<1> USE DEF SessionInv
<1>1. /\ handling' = [handling EXCEPT ![h] =
           [busy |-> TRUE, browser |-> b, claims |-> cookie[b],
            version |-> user.version]]
      /\ cookie[b] # NoToken /\ saves' = saves /\ saved' = saved
      /\ user' = user /\ cookie' = cookie /\ dead' = dead /\ mixed' = mixed
  BY DEF Arrive
<1>2. /\ handling'[h].claims = cookie[b]
      /\ \A x \in Handlers \ {h} : handling'[x] = handling[x]
  BY <1>1 DEF SessionsTyped
<1>3. Origins' \subseteq Origins
  BY <1>1, <1>2, OriginKnown DEF Origins
<1>4. Pending' = Pending
  BY <1>1 DEF Pending
<1>5. LoginsApart'
  BY <1>1, <1>3, <1>4, TokensCopied
<1>6. RevokedAreOlder'
  BY <1>1, <1>2, <1>4 DEF RevokedAreOlder, UpToDate, Older
<1>7. QED
  BY <1>5, <1>6

LEMMA ThrowInv ==
  ASSUME SessionInv, NEW h \in Handlers, Throw(h)
  PROVE  LoginsApart' /\ RevokedAreOlder'
<1> USE DEF SessionInv
<1>1. /\ handling' = [handling EXCEPT ![h] = NotHandling]
      /\ saves' = saves /\ saved' = saved
      /\ user' = user /\ cookie' = cookie /\ dead' = dead /\ mixed' = mixed
  BY DEF Throw
<1>2. /\ ~handling'[h].busy
      /\ \A x \in Handlers \ {h} : handling'[x] = handling[x]
  BY <1>1 DEF SessionsTyped, NotHandling
<1>3. Origins' \subseteq Origins
  BY <1>1, <1>2 DEF Origins
<1>4. Pending' = Pending
  BY <1>1 DEF Pending
<1>5. LoginsApart'
  BY <1>1, <1>3, <1>4, TokensCopied
<1>6. RevokedAreOlder'
  BY <1>1, <1>2, <1>4 DEF RevokedAreOlder, UpToDate, Older
<1>7. QED
  BY <1>5, <1>6

\* A token that is re-issued keeps its version and its login.
LEMMA AnswerInv ==
  ASSUME SessionInv, NEW h \in Handlers, Answer(h)
  PROVE  LoginsApart' /\ RevokedAreOlder'
<1> USE DEF SessionInv
<1> DEFINE r == handling[h]
           t == Refreshed(r)
<1>1. /\ handling' = [handling EXCEPT ![h] = NotHandling] /\ r.busy
      /\ saves' = saves /\ saved' = saved
      /\ user' = user /\ dead' = dead /\ mixed' = mixed
      /\ cookie' = [cookie EXCEPT ![r.browser] = t] \/ cookie' = cookie
  BY DEF Answer
<1>2. r \in Handling /\ r.version = r.claims.version
  BY <1>1 DEF SessionsTyped, RequestFits, NotHandling
<1>3. t.origin = r.claims.origin /\ t.version = r.claims.version
  BY <1>2 DEF Refreshed, Token
<1> HIDE DEF t
<1>4. /\ ~handling'[h].busy
      /\ \A x \in Handlers \ {h} : handling'[x] = handling[x]
  BY <1>1 DEF SessionsTyped, NotHandling
<1>5. \A b \in Browsers : cookie'[b] = cookie[b] \/ cookie'[b] = t
  BY <1>1 DEF SessionsTyped
<1>6. Origins' \subseteq Origins
  <2>1. \A b \in Browsers : cookie'[b] # NoToken => cookie'[b].origin \in Origins
    BY <1>1, <1>3, <1>5, OriginKnown
  <2>2. \A x \in Handlers : handling'[x].busy => handling'[x].claims.origin \in Origins
    BY <1>4, OriginKnown
  <2>3. QED
    BY <2>1, <2>2 DEF Origins
<1>7. Pending' = Pending
  BY <1>1 DEF Pending
<1>8. LoginsApart'
  BY <1>1, <1>6, <1>7, TokensCopied
<1>9. RevokedAreOlder'
  <2>1. SUFFICES ASSUME ~mixed PROVE RevokedAreOlder'
    BY <1>1 DEF RevokedAreOlder
  <2>2. Older(t)
    BY <1>1, <1>3, <2>1 DEF RevokedAreOlder, Older
  <2>3. QED
    BY <1>1, <1>4, <1>5, <1>7, <2>1, <2>2 DEF RevokedAreOlder, UpToDate, Older
<1>10. QED
  BY <1>8, <1>9

\* A logout makes every token there is older than the row.
LEMMA LogoutInv ==
  ASSUME SessionInv, NEW b \in Browsers, Logout(b)
  PROVE  LoginsApart' /\ RevokedAreOlder'
<1> USE DEF SessionInv
<1>1. /\ cookie' = [cookie EXCEPT ![b] = NoToken] /\ saves' = saves
      /\ handling' = handling /\ saved' = saved
  BY DEF Logout
<1>2. \A x \in Browsers : cookie'[x] = cookie[x] \/ cookie'[x] = NoToken
  BY <1>1 DEF SessionsTyped
<1>3. Origins' \subseteq Origins
  BY <1>1, <1>2, OriginKnown DEF Origins
<1>4. Pending' = Pending
  BY <1>1 DEF Pending
<1>5. dead' \subseteq dead \cup Origins
  BY DEF Logout
<1>6. LoginsApart'
  BY <1>1, <1>3, <1>4, <1>5, TokensCopied
<1>7. CASE ~(now < cookie[b].exp)
  <2>1. user' = user /\ dead' = dead /\ mixed' = mixed
    BY <1>7 DEF Logout
  <2>2. QED
    BY <1>1, <1>2, <1>4, <1>6, <2>1 DEF RevokedAreOlder, UpToDate, Older
<1>8. CASE now < cookie[b].exp
  <2>1. /\ user' = [user EXCEPT !.version = @ + 1]
        /\ mixed' = (mixed \/ Pending # {})
    BY <1>8 DEF Logout
  <2>2. user'.version = user.version + 1 /\ user.version \in Nat
    BY <2>1 DEF SessionsTyped, UserRow
  <2>3. SUFFICES ASSUME ~mixed, Pending = {} PROVE RevokedAreOlder'
    BY <1>6, <2>1 DEF RevokedAreOlder
  <2>4. ASSUME NEW t \in Tokens, Older(t) PROVE Older(t)'
    <3>1. t.version \in Nat /\ t.version <= user.version
      BY <2>4 DEF Tokens, Older
    <3>2. QED
      BY <2>2, <3>1 DEF Older
  <2>5. /\ \A x \in Browsers : cookie'[x] # NoToken =>
             cookie'[x] \in Tokens /\ Older(cookie'[x])
        /\ \A h \in Handlers : handling'[h].busy =>
             handling'[h].claims \in Tokens /\ Older(handling'[h].claims)
    <3>1. \A x \in Browsers : cookie[x] # NoToken =>
            cookie[x] \in Tokens /\ Older(cookie[x])
      BY <2>3 DEF SessionsTyped, Signed, RevokedAreOlder
    <3>2. \A h \in Handlers : handling[h].busy =>
            handling[h].claims \in Tokens /\ Older(handling[h].claims)
      BY <2>3, ClaimsType DEF RevokedAreOlder
    <3>3. QED
      BY <1>1, <1>2, <3>1, <3>2
  <2>6. \A x \in Browsers : cookie'[x] # NoToken => Older(cookie[x])'
    BY <2>4, <2>5 DEF Older
  <2>7. \A h \in Handlers : handling'[h].busy => Older(handling[h].claims)'
    BY <2>4, <2>5 DEF Older
  <2>8. QED
    BY <1>4, <2>3, <2>6, <2>7 DEF RevokedAreOlder
<1>9. QED
  BY <1>7, <1>8

\* The save of a login issues the token of a new number, at the version of the
\* row; one that revokes, and that no other save overlaps, leaves every token
\* behind.
LEMMA FlushInv ==
  ASSUME SessionInv, NEW s \in Savers, Flush(s)
  PROVE  LoginsApart' /\ RevokedAreOlder'
<1> USE DEF SessionInv
<1> DEFINE q == saves[s]
           new == Token(q.entity.version, now, q.remember,
                        [login |-> q.login, at |-> now])
<1>1. /\ user' = Overwritten(user, q.entity, q.columns)
      /\ saves' = [saves EXCEPT ![s] = NotSaving]
      /\ handling' = handling /\ saved' = saved /\ q.op # "none"
      /\ cookie' = IF q.op = "login" THEN [cookie EXCEPT ![q.browser] = new]
                   ELSE cookie
      /\ dead' = IF user'.version # user.version THEN dead \cup Origins ELSE dead
      /\ mixed' = IF user'.version # user.version THEN mixed \/ Pending # {s}
                  ELSE mixed
  BY DEF Flush
<1>2. q \in Saving /\ s \in Pending
  BY <1>1 DEF SessionsTyped, SaveFits, NotSaving, Pending
<1>3. new.origin.login = q.login /\ new.version = q.entity.version
  BY DEF Token
<1> HIDE DEF new
<1>4. /\ \A x \in Browsers :
           cookie'[x] = cookie[x] \/ (q.op = "login" /\ cookie'[x] = new)
      /\ Pending' = Pending \ {s}
      /\ \A x \in Pending' : saves'[x] = saves[x]
  <2>1. \A x \in Savers : saves'[x] = IF x = s THEN NotSaving ELSE saves[x]
    BY <1>1 DEF SessionsTyped
  <2>2. \A x \in Browsers :
          cookie'[x] = cookie[x] \/ (q.op = "login" /\ cookie'[x] = new)
    BY <1>1 DEF SessionsTyped
  <2>3. NotSaving.op = "none"
    BY DEF NotSaving
  <2>4. Pending' = Pending \ {s}
    BY <2>1, <2>3 DEF Pending
  <2>5. \A x \in Pending' : saves'[x] = saves[x]
    BY <2>1, <2>4 DEF Pending
  <2>6. QED
    BY <2>2, <2>4, <2>5
<1>5. Origins' \subseteq Origins \cup {new.origin}
  <2>1. \A x \in Browsers : cookie'[x] # NoToken =>
          cookie'[x].origin \in Origins \cup {new.origin}
    BY <1>4, OriginKnown
  <2>2. \A h \in Handlers : handling'[h].busy => handling'[h].claims.origin \in Origins
    BY <1>1, OriginKnown
  <2>3. QED
    BY <2>1, <2>2 DEF Origins
<1>6. LoginsApart'
  <2>1. ASSUME NEW k \in dead' \cup Origins'
        PROVE  /\ k.login \in Nat /\ k.login <= saved'
               /\ \A x \in Pending' : saves'[x].login # k.login
    <3>1. CASE k \in dead \cup Origins
      BY <1>1, <1>4, <3>1 DEF LoginsApart
    <3>2. CASE k = new.origin
      <4>1. k.login \in Nat /\ k.login <= saved
        BY <1>2, <1>3, <3>2 DEF LoginsApart, Saving
      <4>2. \A x \in Pending \ {s} : saves[x].login # k.login
        BY <1>2, <1>3, <3>2 DEF LoginsApart
      <4>3. QED
        BY <1>1, <1>4, <4>1, <4>2
    <3>3. QED
      BY <1>1, <1>5, <3>1, <3>2
  <2>2. \A x, y \in Pending' :
          saves'[x].login <= saved' /\ (saves'[x].login = saves'[y].login => x = y)
    BY <1>1, <1>4 DEF LoginsApart
  <2>3. QED
    BY <2>1, <2>2 DEF LoginsApart
<1>7. /\ user'.version \in {user.version, q.entity.version}
      /\ user.version \in Nat /\ q.entity.version \in Nat
  BY <1>1, <1>2 DEF SessionsTyped, UserRow, Overwritten, Saving
<1>8. ASSUME ~mixed, user'.version = user.version PROVE RevokedAreOlder'
  <2>1. dead' = dead
    BY <1>1, <1>8
  <2>2. q.op = "login" => Older(new)
    <3>1. q.op = "login" => new.version = user.version
      BY <1>2, <1>3, <1>8 DEF RevokedAreOlder, UpToDate, Raising
    <3>2. new.origin \notin dead
      BY <1>2, <1>3 DEF LoginsApart
    <3>3. QED
      BY <1>7, <3>1, <3>2 DEF Older
  <2>3. \A x \in Browsers : cookie'[x] # NoToken => Older(cookie'[x])
    BY <1>4, <1>8, <2>2 DEF RevokedAreOlder
  <2>4. \A x \in Browsers : cookie'[x] # NoToken => Older(cookie[x])'
    BY <1>8, <2>1, <2>3 DEF Older
  <2>5. \A h \in Handlers : handling'[h].busy => Older(handling[h].claims)'
    BY <1>1, <1>8, <2>1 DEF RevokedAreOlder, Older
  <2>6. \A x \in Pending' : UpToDate(saves[x])'
    BY <1>4, <1>8 DEF RevokedAreOlder, UpToDate
  <2>7. QED
    BY <2>4, <2>5, <2>6 DEF RevokedAreOlder
<1>9. ASSUME ~mixed, user'.version # user.version, Pending = {s}
      PROVE  RevokedAreOlder'
  <2>1. q.op \in Raising /\ user'.version > user.version
    BY <1>2, <1>7, <1>9 DEF RevokedAreOlder, UpToDate
  <2>2. cookie' = cookie
    BY <1>1, <2>1 DEF Raising
  <2>3. ASSUME NEW t \in Tokens, Older(t) PROVE Older(t)'
    <3>1. t.version \in Nat /\ t.version <= user.version
      BY <2>3 DEF Tokens, Older
    <3>2. user'.version \in Nat
      BY <1>7
    <3>3. t.version < user'.version
      BY <1>7, <2>1, <3>1, <3>2
    <3>4. QED
      BY <3>1, <3>2, <3>3 DEF Older
  <2>4. \A x \in Browsers : cookie'[x] # NoToken =>
          cookie'[x] \in Tokens /\ Older(cookie'[x])
    BY <1>9, <2>2 DEF SessionsTyped, Signed, RevokedAreOlder
  <2>5. \A h \in Handlers : handling'[h].busy =>
          handling'[h].claims \in Tokens /\ Older(handling'[h].claims)
    BY <1>1, <1>9, ClaimsType DEF RevokedAreOlder
  <2>6. \A x \in Browsers : cookie'[x] # NoToken => Older(cookie[x])'
    BY <2>3, <2>4 DEF Older
  <2>7. \A h \in Handlers : handling'[h].busy => Older(handling[h].claims)'
    BY <2>3, <2>5 DEF Older
  <2>8. Pending' = {}
    BY <1>4, <1>9
  <2>9. QED
    BY <2>6, <2>7, <2>8 DEF RevokedAreOlder
<1>10. RevokedAreOlder'
  <2>1. SUFFICES ASSUME ~mixed' PROVE RevokedAreOlder'
    BY DEF RevokedAreOlder
  <2>2. QED
    BY <1>1, <1>8, <1>9, <2>1
<1>11. QED
  BY <1>6, <1>10

LEMMA SessionsNextInv == SessionInv /\ [SessionsNext]_sessionVars => SessionInv'
<1> SUFFICES ASSUME SessionInv, [SessionsNext]_sessionVars PROVE SessionInv'
  OBVIOUS
<1>1. SessionsTyped'
  BY SessionsNextTyped DEF SessionInv
<1>2. CASE Tick \/ UNCHANGED sessionVars
  <2>1. /\ user' = user /\ saves' = saves /\ cookie' = cookie /\ handling' = handling
        /\ saved' = saved /\ dead' = dead /\ mixed' = mixed
    BY <1>2 DEF Tick, sessionVars
  <2>2. Origins' = Origins /\ Pending' = Pending
    BY <2>1 DEF Origins, Pending
  <2>3. LoginsApart'
    BY <2>1, <2>2, TokensCopied DEF SessionInv
  <2>4. RevokedAreOlder'
    BY <2>1, <2>2 DEF SessionInv, RevokedAreOlder, UpToDate, Older
  <2>5. QED
    BY <1>1, <2>3, <2>4 DEF SessionInv
<1>3. CASE SessionsNext
  <2>1. (LoginsApart' /\ RevokedAreOlder') \/ Tick
    BY <1>3, LoadInv, ReloadInv, FlushInv, LogoutInv, ArriveInv, AnswerInv,
       ThrowInv DEF SessionsNext
  <2>2. QED
    BY <1>1, <1>2, <2>1 DEF SessionInv
<1>4. QED
  BY <1>2, <1>3

\* A session whose tokens existed when a logout, a change of role, e-mail or
\* password, or a deactivation revoked them is never accepted again, although
\* a request that was under way may still have re-issued its cookie.
THEOREM RevokedStaysRevokedHolds == SessionsSpec => RevokedStaysRevoked
<1> DEFINE Step == \A h \in Handlers :
             ~handling[h].busy /\ handling'[h].busy /\ ~mixed =>
               handling'[h].claims.origin \notin dead
<1>1. SessionInv /\ [SessionsNext]_sessionVars => [Step]_sessionVars
  <2> SUFFICES ASSUME SessionInv, SessionsNext, NEW h \in Handlers,
                      ~handling[h].busy, handling'[h].busy, ~mixed
               PROVE  handling'[h].claims.origin \notin dead
    OBVIOUS
  <2>1. PICK x \in Handlers, b \in Browsers : Arrive(x, b)
    <3>1. handling' # handling
      OBVIOUS
    <3>2. ASSUME NEW x \in Handlers, Answer(x) \/ Throw(x) PROVE FALSE
      <4>1. handling' = [handling EXCEPT ![x] = NotHandling]
        BY <3>2 DEF Answer, Throw
      <4>2. handling'[h] = handling[h] \/ handling'[h] = NotHandling
        BY <4>1 DEF SessionInv, SessionsTyped
      <4>3. QED
        BY <4>2 DEF NotHandling
    <3>3. QED
      BY <3>1, <3>2 DEF SessionsNext, Load, Reload, Flush, Logout, Tick
  <2>2. /\ cookie[b] # NoToken /\ user.version = cookie[b].version
        /\ handling' = [handling EXCEPT ![x] =
             [busy |-> TRUE, browser |-> b, claims |-> cookie[b],
              version |-> user.version]]
    BY <2>1 DEF Arrive, Valid
  <2>3. x = h /\ handling'[h].claims = cookie[b]
    BY <2>2 DEF SessionInv, SessionsTyped
  <2>4. Older(cookie[b]) /\ user.version \in Nat
    BY <2>2 DEF SessionInv, SessionsTyped, UserRow, RevokedAreOlder
  <2>5. QED
    BY <2>2, <2>3, <2>4 DEF Older
<1>2. QED
  BY <1>1, SessionsInitInv, SessionsNextInv, PTL DEF SessionsSpec, RevokedStaysRevoked

-----------------------------------------------------------------------------
(* What a pause may cost.                                                  *)

\* A token that lasts as long as its session may.
Capped(t) == t.exp >= t.origin.at + Ceiling(t.remember)

\* A browser seen at that time can pause and still come back.
Lasts(t, at) == at + Pause < t.exp \/ Capped(t)

\* The claims of a request are no younger than the cookie of its browser, so what
\* need not slide for the one need not for the other.
FreshInv ==
  /\ SessionsTyped
  /\ \A b \in Browsers : seen[b] <= now
  /\ \A b \in Browsers : cookie[b] # NoToken =>
       cookie[b].exp <= now + IdleSeconds /\ Lasts(cookie[b], seen[b])
  /\ \A h \in Handlers : handling[h].busy =>
       /\ handling[h].claims.exp <= now + IdleSeconds
       /\ cookie[handling[h].browser] # NoToken =>
            \/ handling[h].claims.exp <= cookie[handling[h].browser].exp
            \/ Capped(cookie[handling[h].browser])

LEMMA Pauses == Pause \in Nat /\ Pause < IdleSeconds /\ Pause <= SlideBefore
BY PolicyAssumption DEF Pause, Lesser

LEMMA TokenLasts ==
  ASSUME now \in Nat, NEW version \in Nat, NEW at \in Nat, NEW origin, origin.at = at,
         NEW remember \in BOOLEAN, RemainingAbsolute(at, remember) > 0
  PROVE  LET t == Token(version, at, remember, origin) IN
         /\ t.exp <= now + IdleSeconds /\ (t.exp = now + IdleSeconds \/ Capped(t))
         /\ Lasts(t, now)
<1>. DEFINE left == RemainingAbsolute(at, remember)
            t == Token(version, at, remember, origin)
<1>1. left \in Int /\ left > 0 /\ now + left = at + Ceiling(remember)
  BY CeilingType DEF RemainingAbsolute
<1>2. t.exp = now + Lesser(IdleSeconds, left) /\ t.origin.at = at /\ t.remember = remember
  BY DEF Token
<1>. HIDE DEF left, t
<1>3. \/ Lesser(IdleSeconds, left) = IdleSeconds
      \/ Lesser(IdleSeconds, left) = left /\ left <= IdleSeconds
  BY <1>1, PolicyAssumption DEF Lesser
<1>4. CASE Lesser(IdleSeconds, left) = IdleSeconds
  BY <1>2, <1>4, Pauses, PolicyAssumption DEF Lasts, t
<1>5. CASE Lesser(IdleSeconds, left) = left /\ left <= IdleSeconds
  <2>1. Capped(t)
    BY <1>1, <1>2, <1>5, CeilingType DEF Capped
  <2>. QED
    BY <1>1, <1>2, <1>5, <2>1, PolicyAssumption DEF Lasts, t
<1>. QED
  BY <1>3, <1>4, <1>5

LEMMA BrowserOfRequest ==
  ASSUME SessionsTyped, NEW h \in Handlers, handling[h].busy
  PROVE  handling[h].browser \in Browsers
<1>1. RequestFits(handling[h]) /\ handling[h] # NotHandling
  BY DEF SessionsTyped, NotHandling
<1>. QED
  BY <1>1 DEF RequestFits, Handling

\* What a step leaves alone lasts as before.
LEMMA StillFresh ==
  ASSUME FreshInv, SessionsTyped', cookie' = cookie, seen' = seen, group' = group,
         now' \in Nat, now <= now',
         \A h \in Handlers : handling'[h].busy => handling'[h] = handling[h]
  PROVE  FreshInv'
<1>1. \A b \in Browsers : cookie[b] # NoToken => cookie[b].exp \in Nat
  BY DEF FreshInv, SessionsTyped, Signed, Tokens
<1>2. \A h \in Handlers : handling[h].busy => handling[h].claims.exp \in Nat
  BY ClaimsType DEF FreshInv, Tokens
<1>3. now \in Nat /\ IdleSeconds \in Nat /\ \A b \in Browsers : seen[b] \in Nat
  BY PolicyAssumption DEF FreshInv, SessionsTyped
<1>4. \A b \in Browsers : seen'[b] <= now'
  BY <1>3 DEF FreshInv
<1>5. \A b \in Browsers : cookie[b] # NoToken =>
        cookie[b].exp <= now' + IdleSeconds /\ Lasts(cookie[b], seen[b])
  BY <1>1, <1>3 DEF FreshInv
<1>6. \A h \in Handlers : handling[h].busy => handling[h].claims.exp <= now' + IdleSeconds
  BY <1>2, <1>3 DEF FreshInv
<1>7. \A h \in Handlers : handling[h].busy /\ cookie[handling[h].browser] # NoToken =>
        \/ handling[h].claims.exp <= cookie[handling[h].browser].exp
        \/ Capped(cookie[handling[h].browser])
  BY DEF FreshInv
<1>. QED
  BY <1>4, <1>5, <1>6, <1>7 DEF FreshInv, Lasts, Capped, Ceiling

\* A browser gets a token.
LEMMA NewTokenFresh ==
  ASSUME FreshInv, SessionsTyped', NEW b \in Browsers, NEW t, group' = group, now' = now,
         cookie' = [cookie EXCEPT ![b] = t], seen' = seen \/ seen' = [seen EXCEPT ![b] = now],
         t.exp <= now + IdleSeconds, t.exp = now + IdleSeconds \/ Capped(t), Lasts(t, now),
         t \in Tokens,
         \A h \in Handlers : handling'[h].busy => handling'[h] = handling[h]
  PROVE  FreshInv'
<1>1. now \in Nat /\ IdleSeconds \in Nat /\ Pause \in Nat /\ t.exp \in Nat
      /\ \A x \in Browsers : seen[x] \in Nat /\ seen[x] <= now
  BY PolicyAssumption, Pauses DEF FreshInv, SessionsTyped, Tokens
<1>2. /\ \A x \in Browsers : cookie'[x] = IF x = b THEN t ELSE cookie[x]
      /\ \A x \in Browsers : seen'[x] = seen[x] \/ (x = b /\ seen'[x] = now)
  BY DEF FreshInv, SessionsTyped
<1>3. \A x \in Browsers : seen'[x] <= now
  BY <1>1, <1>2
<1>4. \A x \in Browsers : cookie'[x] # NoToken =>
        cookie'[x].exp <= now + IdleSeconds /\ Lasts(cookie'[x], seen'[x])
  <2>. SUFFICES ASSUME NEW x \in Browsers, cookie'[x] # NoToken
               PROVE  cookie'[x].exp <= now + IdleSeconds /\ Lasts(cookie'[x], seen'[x])
    OBVIOUS
  <2>1. CASE x = b
    <3>1. seen'[x] \in Nat /\ seen'[x] <= now /\ cookie'[x] = t
      BY <1>1, <1>2, <2>1
    <3>2. seen'[x] + Pause <= now + Pause
      BY <1>1, <3>1
    <3>3. CASE Capped(t)
      BY <3>1, <3>3 DEF Lasts
    <3>4. CASE now + Pause < t.exp
      BY <1>1, <3>1, <3>2, <3>4 DEF Lasts
    <3>. QED
      BY <3>3, <3>4 DEF Lasts
  <2>2. CASE x # b
    BY <1>2, <2>2 DEF FreshInv
  <2>. QED
    BY <2>1, <2>2
<1>5. \A h \in Handlers : handling[h].busy =>
        /\ handling[h].claims.exp <= now + IdleSeconds
        /\ cookie'[handling[h].browser] # NoToken =>
             \/ handling[h].claims.exp <= cookie'[handling[h].browser].exp
             \/ Capped(cookie'[handling[h].browser])
  <2>. SUFFICES ASSUME NEW h \in Handlers, handling[h].busy
               PROVE  /\ handling[h].claims.exp <= now + IdleSeconds
                      /\ cookie'[handling[h].browser] # NoToken =>
                           \/ handling[h].claims.exp <= cookie'[handling[h].browser].exp
                           \/ Capped(cookie'[handling[h].browser])
    OBVIOUS
  <2>1. handling[h].browser \in Browsers
    BY BrowserOfRequest DEF FreshInv
  <2>2. CASE handling[h].browser = b
    BY <1>2, <2>1, <2>2 DEF FreshInv
  <2>3. CASE handling[h].browser # b
    BY <1>2, <2>1, <2>3 DEF FreshInv
  <2>. QED
    BY <2>2, <2>3
<1>. QED
  BY <1>3, <1>4, <1>5 DEF FreshInv, Lasts, Capped, Ceiling

LEMMA FreshStarts == SessionsInit => FreshInv
<1>. SUFFICES ASSUME SessionsInit PROVE FreshInv
  OBVIOUS
<1>1. SessionsTyped
  BY SessionsInitTyped
<1>2. \A b \in Browsers : seen[b] = 0 /\ cookie[b] = NoToken
  BY DEF SessionsInit
<1>3. now = 0 /\ \A h \in Handlers : ~handling[h].busy
  BY DEF SessionsInit, NotHandling
<1>. QED
  BY <1>1, <1>2, <1>3 DEF FreshInv

LEMMA FlushFresh ==
  ASSUME FreshInv, SessionsTyped', NEW s \in Savers, Flush(s)
  PROVE  FreshInv'
<1>. DEFINE q == saves[s]
            t == Token(q.entity.version, now, q.remember, [login |-> q.login, at |-> now])
<1>1. group' = group /\ now' = now /\ handling' = handling /\ q.op # "none"
  BY DEF Flush
<1>2. now \in Nat
  BY DEF FreshInv, SessionsTyped
<1>3. CASE q.op = "login"
  <2>1. cookie' = [cookie EXCEPT ![q.browser] = t] /\ seen' = [seen EXCEPT ![q.browser] = now]
    BY <1>3 DEF Flush
  <2>2. q \in Saving
    BY <1>1 DEF FreshInv, SessionsTyped, SaveFits, NotSaving
  <2>3. q.entity.version \in Nat /\ q.remember \in BOOLEAN /\ q.login \in Nat /\ q.browser \in Browsers
    BY <2>2 DEF Saving, UserRow
  <2>4. RemainingAbsolute(now, q.remember) > 0
    BY <1>2, CeilingType DEF RemainingAbsolute
  <2>5. [login |-> q.login, at |-> now].at = now
    OBVIOUS
  <2>6. t \in Tokens
    BY <1>2, <2>3, <2>4, TokenIsSigned DEF Signed
  <2>7. t.exp <= now + IdleSeconds /\ (t.exp = now + IdleSeconds \/ Capped(t)) /\ Lasts(t, now)
    BY <1>2, <2>3, <2>4, <2>5, TokenLasts
  <2>. HIDE DEF t, q
  <2>. QED
    BY <1>1, <2>1, <2>3, <2>6, <2>7, NewTokenFresh
<1>4. CASE q.op # "login"
  <2>1. cookie' = cookie /\ seen' = seen
    BY <1>4 DEF Flush
  <2>. QED
    BY <1>1, <1>2, <2>1, StillFresh
<1>. QED
  BY <1>3, <1>4

LEMMA LogoutFresh ==
  ASSUME FreshInv, SessionsTyped', NEW b \in Browsers, Logout(b)
  PROVE  FreshInv'
<1>1. /\ cookie' = [cookie EXCEPT ![b] = NoToken]
      /\ group' = group /\ now' = now /\ handling' = handling /\ seen' = seen
  BY DEF Logout
<1>2. \A x \in Browsers : cookie'[x] = NoToken \/ cookie'[x] = cookie[x]
  BY <1>1 DEF FreshInv, SessionsTyped
<1>3. \A h \in Handlers : handling[h].busy => handling[h].browser \in Browsers
  BY BrowserOfRequest DEF FreshInv
<1>. QED
  BY <1>1, <1>2, <1>3 DEF FreshInv, Lasts, Capped, Ceiling

LEMMA ArriveFresh ==
  ASSUME FreshInv, SessionsTyped', NEW h \in Handlers, NEW b \in Browsers, Arrive(h, b)
  PROVE  FreshInv'
<1>1. /\ cookie' = cookie /\ group' = group /\ now' = now /\ seen' = seen /\ cookie[b] # NoToken
      /\ handling' = [handling EXCEPT ![h] = [busy |-> TRUE, browser |-> b,
                        claims |-> cookie[b], version |-> user.version]]
  BY DEF Arrive
<1>2. \A x \in Handlers : \/ handling'[x] = handling[x]
                          \/ handling'[x].claims = cookie[b] /\ handling'[x].browser = b
  BY <1>1 DEF FreshInv, SessionsTyped
<1>3. cookie[b].exp \in Nat
  BY <1>1 DEF FreshInv, SessionsTyped, Signed, Tokens
<1>4. \A x \in Browsers : seen[x] <= now
  BY DEF FreshInv
<1>5. \A x \in Browsers : cookie[x] # NoToken =>
        cookie[x].exp <= now + IdleSeconds /\ Lasts(cookie[x], seen[x])
  BY DEF FreshInv
<1>6. \A x \in Handlers : handling'[x].busy =>
        /\ handling'[x].claims.exp <= now + IdleSeconds
        /\ cookie[handling'[x].browser] # NoToken =>
             \/ handling'[x].claims.exp <= cookie[handling'[x].browser].exp
             \/ Capped(cookie[handling'[x].browser])
  <2>. SUFFICES ASSUME NEW x \in Handlers, handling'[x].busy
               PROVE  /\ handling'[x].claims.exp <= now + IdleSeconds
                      /\ cookie[handling'[x].browser] # NoToken =>
                           \/ handling'[x].claims.exp <= cookie[handling'[x].browser].exp
                           \/ Capped(cookie[handling'[x].browser])
    OBVIOUS
  <2>1. CASE handling'[x] = handling[x]
    BY <2>1 DEF FreshInv
  <2>2. CASE handling'[x].claims = cookie[b] /\ handling'[x].browser = b
    BY <1>1, <1>3, <1>5, <2>2
  <2>. QED
    BY <1>2, <2>1, <2>2
<1>. QED
  BY <1>1, <1>4, <1>5, <1>6 DEF FreshInv, Lasts, Capped, Ceiling

\* A request that does not slide its cookie leaves one that lasts: the claims are
\* more than the window away from their end, and the cookie is no older.
LEMMA AnswerFresh ==
  ASSUME FreshInv, SessionsTyped', NEW h \in Handlers, Answer(h)
  PROVE  FreshInv'
<1>. DEFINE r == handling[h]
            c == r.claims
<1>1. /\ r.busy /\ group' = group /\ now' = now
      /\ handling' = [handling EXCEPT ![h] = NotHandling]
      /\ cookie' = IF Slides(c) THEN [cookie EXCEPT ![r.browser] = Refreshed(r)] ELSE cookie
      /\ seen' = IF now < c.exp THEN [seen EXCEPT ![r.browser] = now] ELSE seen
  BY DEF Answer
<1>2. RequestFits(r) /\ r # NotHandling
  BY <1>1 DEF FreshInv, SessionsTyped, NotHandling
<1>3. r \in Handling /\ Signed(c)
  BY <1>2 DEF RequestFits
<1>4. /\ r.browser \in Browsers /\ r.version \in Nat /\ c.authTime \in Nat /\ c.exp \in Nat
      /\ c.remember \in BOOLEAN /\ c.origin.login \in Nat /\ c.origin.at = c.authTime
      /\ c.origin = [login |-> c.origin.login, at |-> c.authTime] /\ now \in Nat
      /\ c.exp <= c.authTime + Ceiling(c.remember)
  BY <1>3 DEF Handling, Signed, Tokens, FreshInv, SessionsTyped
<1>5. \A x \in Handlers : handling'[x].busy => handling'[x] = handling[x]
  BY <1>1 DEF FreshInv, SessionsTyped, NotHandling
<1>6. CASE Slides(c)
  <2>. DEFINE t == Refreshed(r)
  <2>1. RemainingAbsolute(c.authTime, c.remember) > 0
    BY <1>6 DEF Slides
  <2>2. t = Token(r.version, c.authTime, c.remember, c.origin)
    BY DEF Refreshed
  <2>3. t.exp <= now + IdleSeconds /\ (t.exp = now + IdleSeconds \/ Capped(t)) /\ Lasts(t, now)
    BY <1>4, <2>1, <2>2, TokenLasts
  <2>4. t \in Tokens
    BY <1>4, <2>1, <2>2, TokenIsSigned DEF Signed
  <2>5. cookie' = [cookie EXCEPT ![r.browser] = t]
    BY <1>1, <1>6
  <2>. HIDE DEF t, c, r
  <2>. QED
    BY <1>1, <1>4, <1>5, <2>3, <2>4, <2>5, NewTokenFresh
<1>7. CASE ~Slides(c) /\ ~(now < c.exp)
  BY <1>1, <1>4, <1>5, <1>7, StillFresh
<1>8. CASE ~Slides(c) /\ now < c.exp
  <2>1. c.exp - now > SlideBefore
    BY <1>4, <1>8, CeilingType, PolicyAssumption DEF Slides, ShouldSlide, RemainingAbsolute
  <2>2. cookie' = cookie /\ seen' = [seen EXCEPT ![r.browser] = now]
    BY <1>1, <1>8
  <2>3. now + Pause < c.exp
    BY <1>4, <2>1, Pauses, PolicyAssumption
  <2>4. ASSUME cookie[r.browser] # NoToken PROVE Lasts(cookie[r.browser], now)
    <3>1. cookie[r.browser].exp \in Nat
      BY <1>4, <2>4 DEF FreshInv, SessionsTyped, Signed, Tokens
    <3>2. c.exp <= cookie[r.browser].exp \/ Capped(cookie[r.browser])
      BY <1>1, <2>4 DEF FreshInv
    <3>. QED
      BY <1>4, <2>3, <3>1, <3>2, Pauses DEF Lasts
  <2>. HIDE DEF r, c
  <2>5. \A x \in Browsers : seen'[x] = IF x = r.browser THEN now ELSE seen[x]
    BY <1>4, <2>2 DEF FreshInv, SessionsTyped
  <2>6. \A x \in Browsers : seen'[x] <= now
    BY <1>4, <2>5 DEF FreshInv
  <2>7. \A x \in Browsers : cookie[x] # NoToken =>
          cookie[x].exp <= now + IdleSeconds /\ Lasts(cookie[x], seen'[x])
    BY <2>4, <2>5 DEF FreshInv
  <2>8. \A x \in Handlers : handling[x].busy =>
          /\ handling[x].claims.exp <= now + IdleSeconds
          /\ cookie[handling[x].browser] # NoToken =>
               \/ handling[x].claims.exp <= cookie[handling[x].browser].exp
               \/ Capped(cookie[handling[x].browser])
    BY DEF FreshInv
  <2>. QED
    BY <1>1, <1>5, <2>2, <2>6, <2>7, <2>8 DEF FreshInv, Lasts, Capped, Ceiling
<1>. QED
  BY <1>6, <1>7, <1>8

LEMMA FreshSteps == FreshInv /\ [SessionsNext]_sessionVars => FreshInv'
<1>. SUFFICES ASSUME FreshInv, [SessionsNext]_sessionVars PROVE FreshInv'
  OBVIOUS
<1>1. SessionsTyped' /\ now \in Nat
  BY SessionsNextTyped DEF FreshInv, SessionsTyped
<1>2. ASSUME cookie' = cookie, seen' = seen, group' = group, now' = now, handling' = handling
      PROVE  FreshInv'
  BY <1>1, <1>2, StillFresh
<1>3. CASE UNCHANGED sessionVars
  BY <1>2, <1>3 DEF sessionVars
<1>4. ASSUME NEW s \in Savers, Reload(s) \/ Flush(s) PROVE FreshInv'
  BY <1>1, <1>2, <1>4, FlushFresh DEF Reload
<1>5. ASSUME NEW s, NEW o, NEW b, NEW remember, Load(s, o, b, remember) PROVE FreshInv'
  BY <1>2, <1>5 DEF Load
<1>6. ASSUME NEW b \in Browsers, Logout(b) \/ (\E h \in Handlers : Arrive(h, b)) PROVE FreshInv'
  BY <1>1, <1>6, LogoutFresh, ArriveFresh
<1>7. ASSUME NEW h \in Handlers, Answer(h) \/ Throw(h) PROVE FreshInv'
  <2>1. CASE Throw(h)
    <3>1. /\ cookie' = cookie /\ seen' = seen /\ group' = group /\ now' = now
          /\ handling' = [handling EXCEPT ![h] = NotHandling]
      BY <2>1 DEF Throw
    <3>2. \A x \in Handlers : handling'[x].busy => handling'[x] = handling[x]
      BY <3>1 DEF FreshInv, SessionsTyped, NotHandling
    <3>. QED
      BY <1>1, <3>1, <3>2, StillFresh
  <2>. QED
    BY <1>1, <1>7, <2>1, AnswerFresh
<1>8. CASE Tick
  <2>1. /\ cookie' = cookie /\ seen' = seen /\ group' = group /\ now' = now + 1 /\ handling' = handling
    BY <1>8 DEF Tick
  <2>. QED
    BY <1>1, <2>1, StillFresh
<1>. QED
  BY <1>3, <1>4, <1>5, <1>6, <1>7, <1>8 DEF SessionsNext

\* A browser that does not pause for longer than the slide-before window keeps its
\* session for the whole of the absolute lifetime, whichever of its requests are
\* answered in which order and whichever of them re-issue the cookie.
THEOREM ActiveStaysSignedInHolds == SessionsSpec => []ActiveStaysSignedIn
<1>1. FreshInv => ActiveStaysSignedIn
  <2>. SUFFICES ASSUME FreshInv, NEW b \in Browsers, cookie[b] # NoToken, now - seen[b] <= Pause
               PROVE  \/ now < cookie[b].exp
                      \/ now >= cookie[b].origin.at + Ceiling(cookie[b].remember)
    BY DEF ActiveStaysSignedIn
  <2>1. /\ now \in Nat /\ seen[b] \in Nat /\ cookie[b].exp \in Nat
        /\ cookie[b].origin.at \in Nat /\ Ceiling(cookie[b].remember) \in Nat
    BY CeilingType DEF FreshInv, SessionsTyped, Signed, Tokens
  <2>2. Lasts(cookie[b], seen[b])
    BY DEF FreshInv
  <2>. QED
    BY <2>1, <2>2, Pauses DEF Lasts, Capped
<1>. QED
  BY <1>1, FreshStarts, FreshSteps, PTL DEF SessionsSpec

-----------------------------------------------------------------------------
(***************************************************************************)
(* Roles, for any number of roles, users, edits and saves.                  *)
(***************************************************************************)

EditFits(q) ==
  /\ "op" \in DOMAIN q /\ q.op \in {"none", "create", "update", "delete"}
  /\ q.op # "none" => {"role", "dropped", "new"} \subseteq DOMAIN q /\ q.role \in RoleIds
  /\ q.op = "create" => roles[q.role] = NoRole /\ q.new \in RoleRow
  /\ q.op \in {"update", "delete"} => roles[q.role] # NoRole
  /\ q.op = "delete" => q.new = NoRole
  /\ q.op = "update" =>
       q.new \in RoleRow /\ (q.new.group # roles[q.role].group => Holders(q.role) = {})

AssignFits(q) ==
  /\ {"pc"} \subseteq DOMAIN q
  /\ q.pc \in {"find", "save", "flush"} =>
       /\ {"user", "entity", "target", "columns"} \subseteq DOMAIN q /\ q.user \in StaffIds
       /\ {"role", "version"} \subseteq DOMAIN q.entity /\ q.entity.role \in RoleIds
       /\ q.pc = "find" => q.target \in RoleIds

\* Whoever edits a role has it alone, and while an edit moves the role to another
\* group nobody holds it.
RoleInv ==
  /\ roles \in [RoleIds -> RoleRow \cup {NoRole}]
  /\ staff = [u \in StaffIds |-> staff[u]]
  /\ \A u \in StaffIds :
       /\ {"role", "version"} \subseteq DOMAIN staff[u] /\ staff[u].role \in RoleIds
       /\ roles[staff[u].role] # NoRole
  /\ spare \subseteq RoleIds /\ \A r \in spare : roles[r] = NoRole
  /\ edit = [t \in Transactions |-> edit[t]]
  /\ \A t \in Transactions : EditFits(edit[t])
  /\ \A t \in Transactions : edit[t].op = "create" => edit[t].role \notin spare
  /\ \A t, x \in Transactions :
       edit[t].op # "none" /\ edit[x].op # "none" /\ edit[t].role = edit[x].role => t = x
  /\ assign = [a \in Assignments |-> assign[a]]
  /\ \A a \in Assignments : AssignFits(assign[a])

LEMMA RolesStart == RolesInit => RoleInv
<1>. SUFFICES ASSUME RolesInit PROVE RoleInv
  OBVIOUS
<1>1. PICK start \in StartRoles : roles = start.roles /\ staff = start.staff
  BY DEF RolesInit
<1>2. /\ roles \in [RoleIds -> RoleRow \cup {NoRole}]
      /\ staff \in [StaffIds -> [role : RoleIds, version : Nat \ {0}]]
      /\ \A u \in StaffIds : roles[staff[u].role] # NoRole
  BY <1>1, StartRolesAssumption
<1>3. edit = [t \in Transactions |-> NoEdit] /\ assign = [a \in Assignments |-> NoAssignment]
      /\ spare = {r \in RoleIds : roles[r] = NoRole}
  BY DEF RolesInit
<1>4. \A t \in Transactions : edit[t].op = "none" /\ EditFits(edit[t])
  BY <1>3 DEF NoEdit, EditFits
<1>5. \A a \in Assignments : AssignFits(assign[a])
  BY <1>3 DEF NoAssignment, AssignFits
<1>. QED
  BY <1>2, <1>3, <1>4, <1>5 DEF RoleInv

\* An edit begins or ends; the roles and who holds them stay.
LEMMA EditKeeps ==
  ASSUME RoleInv, NEW t \in Transactions, NEW q, edit' = [edit EXCEPT ![t] = q],
         roles' = roles, staff' = staff, assign' = assign, spare' \subseteq spare,
         EditFits(q), q.op = "create" => q.role \notin spare',
         q.op # "none" => \A x \in Transactions \ {t} : edit[x].op # "none" => edit[x].role # q.role
  PROVE  RoleInv'
<1>1. edit' = [x \in Transactions |-> edit'[x]]
      /\ \A x \in Transactions : edit'[x] = IF x = t THEN q ELSE edit[x]
  BY DEF RoleInv
<1>2. \A x \in Transactions : EditFits(edit'[x])
  BY <1>1 DEF RoleInv
<1>3. \A x, y \in Transactions :
        edit'[x].op # "none" /\ edit'[y].op # "none" /\ edit'[x].role = edit'[y].role => x = y
  BY <1>1 DEF RoleInv
<1>4. \A x \in Transactions : edit'[x].op = "create" => edit'[x].role \notin spare'
  BY <1>1 DEF RoleInv
<1>5. \A x \in Transactions : EditFits(edit[x])'
  BY <1>2 DEF EditFits, Holders
<1>. QED
  BY <1>1, <1>3, <1>4, <1>5 DEF RoleInv, AssignFits

LEMMA BeginCreateKeeps ==
  ASSUME RoleInv, NEW t \in Transactions, NEW r \in RoleIds, NEW group1 \in RoleGroups,
         NEW sections \in SUBSET Sections, BeginCreate(t, r, group1, sections)
  PROVE  RoleInv'
<1>. DEFINE row == [group |-> group1, sections |-> sections]
            q == [op |-> "create", role |-> r, dropped |-> TRUE, new |-> row]
<1>1. /\ edit' = [edit EXCEPT ![t] = q] /\ roles' = roles /\ staff' = staff /\ assign' = assign
      /\ r \in spare /\ spare' = spare \ {r}
  BY DEF BeginCreate
<1>2. row \in RoleRow
  BY DEF RoleRow
<1>. HIDE DEF row
<1>3. \A x \in Transactions : edit[x].op # "none" => edit[x].role # r
  BY <1>1 DEF RoleInv, EditFits
<1>4. roles[r] = NoRole
  BY <1>1 DEF RoleInv
<1>5. EditFits(q) /\ q.role = r /\ q.op # "none"
  BY <1>2, <1>4 DEF EditFits
<1>. HIDE DEF q
<1>. QED
  BY <1>1, <1>3, <1>5, EditKeeps

LEMMA Unlocked ==
  ASSUME RoleInv, NEW r \in RoleIds, roles[r] # NoRole, ~Locked(r)
  PROVE  \A x \in Transactions : edit[x].op # "none" => edit[x].role # r
BY DEF RoleInv, Locked, EditFits

LEMMA BeginUpdateKeeps ==
  ASSUME RoleInv, NEW t \in Transactions, NEW r \in RoleIds, NEW g \in RoleGroups,
         NEW sections \in SUBSET Sections, BeginUpdate(t, r, g, sections)
  PROVE  RoleInv'
<1>. DEFINE row == [group |-> g, sections |-> sections]
            same == (sections = roles[r].sections /\ g = "INTERNAL")
            q == [op |-> "update", role |-> r, dropped |-> same, new |-> row]
<1>1. /\ edit' = [edit EXCEPT ![t] = q] /\ roles' = roles /\ staff' = staff /\ assign' = assign
      /\ spare' = spare /\ roles[r] # NoRole /\ ~Locked(r)
      /\ g # roles[r].group => Holders(r) = {}
  BY DEF BeginUpdate
<1>2. row \in RoleRow /\ row.group = g
  BY DEF RoleRow
<1>. HIDE DEF row, same
<1>3. EditFits(q) /\ q.role = r /\ q.op = "update"
  BY <1>1, <1>2 DEF EditFits
<1>. HIDE DEF q
<1>. QED
  BY <1>1, <1>3, EditKeeps, Unlocked

LEMMA BeginDeleteKeeps ==
  ASSUME RoleInv, NEW t \in Transactions, NEW r \in RoleIds, BeginDelete(t, r)
  PROVE  RoleInv'
<1>. DEFINE q == [op |-> "delete", role |-> r, dropped |-> TRUE, new |-> NoRole]
<1>1. /\ edit' = [edit EXCEPT ![t] = q] /\ roles' = roles /\ staff' = staff /\ assign' = assign
      /\ spare' = spare /\ roles[r] # NoRole /\ ~Locked(r)
  BY DEF BeginDelete
<1>2. EditFits(q) /\ q.role = r /\ q.op = "delete"
  BY <1>1 DEF EditFits
<1>. HIDE DEF q
<1>. QED
  BY <1>1, <1>2, EditKeeps, Unlocked

LEMMA ReplaceSectionsKeeps ==
  ASSUME RoleInv, NEW t \in Transactions, ReplaceSections(t)
  PROVE  RoleInv'
<1>. DEFINE q == [edit[t] EXCEPT !.dropped = TRUE]
<1>1. /\ edit' = [edit EXCEPT ![t] = q] /\ roles' = roles /\ staff' = staff /\ assign' = assign
      /\ spare' = spare /\ edit[t].op = "update"
  BY DEF ReplaceSections, RoleInv
<1>2. EditFits(edit[t])
  BY DEF RoleInv
<1>3. EditFits(q) /\ q.role = edit[t].role /\ q.op = "update"
  BY <1>1, <1>2 DEF EditFits
<1>. HIDE DEF q
<1>4. \A x \in Transactions \ {t} : edit[x].op # "none" => edit[x].role # edit[t].role
  BY <1>1 DEF RoleInv
<1>. QED
  BY <1>1, <1>3, <1>4, EditKeeps

LEMMA RefuseKeeps ==
  ASSUME RoleInv, NEW t \in Transactions, Refuse(t)
  PROVE  RoleInv'
<1>1. /\ edit' = [edit EXCEPT ![t] = NoEdit] /\ roles' = roles /\ staff' = staff
      /\ assign' = assign /\ spare' = spare
  BY DEF Refuse
<1>2. EditFits(NoEdit) /\ NoEdit.op = "none"
  BY DEF NoEdit, EditFits
<1>. QED
  BY <1>1, <1>2, EditKeeps

\* What a commit does to the holders of roles: nothing.
LEMMA CommitSpares ==
  ASSUME RoleInv, NEW t \in Transactions, CommitEdit(t), NEW u \in StaffIds
  PROVE  /\ roles'[staff[u].role] # NoRole
         /\ roles'[staff[u].role].group = roles[staff[u].role].group
<1>. DEFINE r == edit[t].role
            h == staff[u].role
<1>1. /\ roles' = [roles EXCEPT ![r] = edit[t].new] /\ edit[t].op # "none"
      /\ edit[t].op = "delete" => Holders(r) = {}
  BY DEF CommitEdit
<1>2. EditFits(edit[t]) /\ h \in RoleIds /\ roles[h] # NoRole
  BY DEF RoleInv
<1>3. r \in RoleIds /\ roles'[h] = IF h = r THEN edit[t].new ELSE roles[h]
  BY <1>1, <1>2 DEF EditFits, RoleInv
<1>4. CASE h = r
  <2>1. u \in Holders(r)
    BY <1>4 DEF Holders
  <2>2. edit[t].op = "update" /\ edit[t].new \in RoleRow /\ edit[t].new.group = roles[r].group
    BY <1>1, <1>2, <1>4, <2>1 DEF EditFits
  <2>. QED
    BY <1>3, <1>4, <2>2, StartRolesAssumption
<1>5. CASE h # r
  BY <1>2, <1>3, <1>5
<1>. QED
  BY <1>4, <1>5

LEMMA CommitKeeps ==
  ASSUME RoleInv, NEW t \in Transactions, CommitEdit(t)
  PROVE  RoleInv'
<1>. DEFINE r == edit[t].role
<1>1. /\ roles' = [roles EXCEPT ![r] = edit[t].new] /\ edit[t].op # "none"
      /\ edit' = [edit EXCEPT ![t] = NoEdit] /\ staff' = staff /\ assign' = assign
      /\ spare' = spare
  BY DEF CommitEdit
<1>2. EditFits(edit[t]) /\ r \in RoleIds
  BY <1>1 DEF RoleInv, EditFits
<1>3. edit[t].new \in RoleRow \cup {NoRole}
  BY <1>1, <1>2 DEF EditFits
<1>4. roles' \in [RoleIds -> RoleRow \cup {NoRole}] /\ \A x \in RoleIds \ {r} : roles'[x] = roles[x]
  BY <1>1, <1>2, <1>3 DEF RoleInv
<1>5. \A u \in StaffIds : roles'[staff[u].role] # NoRole
  BY CommitSpares
<1>6. \A x \in spare : roles'[x] = NoRole
  <2>. SUFFICES ASSUME NEW x \in spare PROVE roles'[x] = NoRole
    OBVIOUS
  <2>1. x \in RoleIds /\ roles[x] = NoRole
    BY DEF RoleInv
  <2>2. x = r => edit[t].op = "delete"
    BY <1>1, <1>2, <2>1 DEF RoleInv, EditFits
  <2>. QED
    BY <1>1, <1>2, <1>4, <2>1, <2>2 DEF RoleInv, EditFits
<1>7. /\ edit' = [x \in Transactions |-> edit'[x]]
      /\ \A x \in Transactions : edit'[x] = IF x = t THEN NoEdit ELSE edit[x]
  BY <1>1 DEF RoleInv
<1>8. NoEdit.op = "none" /\ "op" \in DOMAIN NoEdit
  BY DEF NoEdit
<1>9. ASSUME NEW x \in Transactions PROVE EditFits(edit[x])'
  <2>1. CASE x = t
    BY <1>7, <1>8, <2>1 DEF EditFits
  <2>2. CASE x # t
    <3>1. EditFits(edit[x]) /\ edit'[x] = edit[x]
      BY <1>7, <2>2 DEF RoleInv
    <3>2. edit[x].op # "none" => edit[x].role # r /\ edit[x].role \in RoleIds
      BY <1>1, <2>2, <3>1 DEF RoleInv, EditFits
    <3>3. edit[x].op # "none" => roles'[edit[x].role] = roles[edit[x].role]
      BY <1>4, <3>2
    <3>. QED
      BY <1>1, <3>1, <3>3 DEF EditFits, Holders
  <2>. QED
    BY <2>1, <2>2
<1>10. /\ \A x \in Transactions : edit'[x].op = "create" => edit'[x].role \notin spare'
       /\ \A x, y \in Transactions :
            edit'[x].op # "none" /\ edit'[y].op # "none" /\ edit'[x].role = edit'[y].role => x = y
  BY <1>1, <1>7, <1>8 DEF RoleInv
<1>. QED
  BY <1>1, <1>4, <1>5, <1>6, <1>7, <1>9, <1>10 DEF RoleInv, AssignFits

\* A save of a user begins, goes on or ends; the roles and the edits stay.
LEMMA AssignKeeps ==
  ASSUME RoleInv, NEW a \in Assignments, NEW q, assign' = [assign EXCEPT ![a] = q],
         AssignFits(q), roles' = roles, staff' = staff, edit' = edit, spare' = spare
  PROVE  RoleInv'
<1>1. assign' = [x \in Assignments |-> assign'[x]]
      /\ \A x \in Assignments : assign'[x] = IF x = a THEN q ELSE assign[x]
  BY DEF RoleInv
<1>2. \A x \in Assignments : AssignFits(assign'[x])
  BY <1>1 DEF RoleInv
<1>3. \A t \in Transactions : EditFits(edit[t])'
  <2>1. \A t \in Transactions : EditFits(edit[t])
    BY DEF RoleInv
  <2>. QED
    BY <2>1 DEF EditFits, Holders
<1>4. \A x \in Assignments : AssignFits(assign[x])'
  BY <1>2 DEF AssignFits
<1>. QED
  BY <1>1, <1>3, <1>4 DEF RoleInv

LEMMA LoadUserKeeps ==
  ASSUME RoleInv, NEW a \in Assignments, NEW u \in StaffIds, NEW r \in RoleIds \cup {NoRole},
         LoadUser(a, u, r)
  PROVE  RoleInv'
<1>. DEFINE g == roles[staff[u].role].group
            q == [pc |-> IF r = NoRole THEN "save" ELSE "find", user |-> u,
                  entity |-> staff[u], group |-> g, target |-> r, columns |-> {}]
<1>1. /\ assign' = [assign EXCEPT ![a] = q] /\ roles' = roles /\ staff' = staff
      /\ edit' = edit /\ spare' = spare
  BY DEF LoadUser
<1>. HIDE DEF g
<1>2. AssignFits(q)
  BY DEF AssignFits, RoleInv
<1>. HIDE DEF q
<1>. QED
  BY <1>1, <1>2, AssignKeeps

LEMMA FindRoleKeeps ==
  ASSUME RoleInv, NEW a \in Assignments, FindRole(a)
  PROVE  RoleInv'
<1>. DEFINE p == assign[a]
            e1 == [p.entity EXCEPT !.role = p.target]
            e == [e1 EXCEPT !.version = e1.version + 1]
            q == [p EXCEPT !.pc = "save", !.entity = e]
<1>1. p.pc = "find" /\ AssignFits(p)
  BY DEF FindRole, RoleInv
<1>2. AssignFits(NoAssignment)
  BY DEF AssignFits, NoAssignment
<1>3. assign' = [assign EXCEPT ![a] = q] \/ assign' = [assign EXCEPT ![a] = NoAssignment]
  BY <1>1 DEF FindRole, RoleInv, AssignFits
<1>4. roles' = roles /\ staff' = staff /\ edit' = edit /\ spare' = spare
  BY DEF FindRole
<1>5. e.role = p.target /\ {"role", "version"} \subseteq DOMAIN e
  BY <1>1 DEF AssignFits
<1>. HIDE DEF e, p
<1>6. AssignFits(q)
  BY <1>1, <1>5 DEF AssignFits
<1>. HIDE DEF q
<1>. QED
  BY <1>2, <1>3, <1>4, <1>6, AssignKeeps DEF p

LEMMA ReloadUserKeeps ==
  ASSUME RoleInv, NEW a \in Assignments, ReloadUser(a)
  PROVE  RoleInv'
<1>. DEFINE p == assign[a]
            columns == Differing(p.entity, staff[p.user])
            q == [p EXCEPT !.pc = "flush", !.columns = columns]
<1>1. p.pc = "save" /\ AssignFits(p)
  BY DEF ReloadUser, RoleInv
<1>2. assign' = [assign EXCEPT ![a] = q] /\ roles' = roles /\ staff' = staff
      /\ edit' = edit /\ spare' = spare
  BY DEF ReloadUser, RoleInv
<1>. HIDE DEF columns, p
<1>3. AssignFits(q)
  BY <1>1 DEF AssignFits
<1>. HIDE DEF q
<1>. QED
  BY <1>2, <1>3, AssignKeeps DEF p

\* A role is given to a user while nobody edits it.
LEMMA FlushUserKeeps ==
  ASSUME RoleInv, NEW a \in Assignments, FlushUser(a)
  PROVE  RoleInv'
<1>. DEFINE p == assign[a]
            u == p.user
            r == p.entity.role
            assigns == "role" \in p.columns
            row == Overwritten(staff[u], p.entity, p.columns)
<1>1. p.pc = "flush" /\ AssignFits(p)
  BY DEF FlushUser, RoleInv
<1>2. AssignFits(NoAssignment)
  BY DEF AssignFits, NoAssignment
<1>3. /\ assign' = [assign EXCEPT ![a] = NoAssignment] /\ roles' = roles
      /\ edit' = edit /\ spare' = spare /\ (assigns => ~Locked(r))
      /\ staff' = IF assigns /\ roles[r] = NoRole THEN staff ELSE [staff EXCEPT ![u] = row]
  BY DEF FlushUser
<1>4. u \in StaffIds /\ r \in RoleIds
  BY <1>1 DEF AssignFits
<1>5. CASE staff' = staff
  BY <1>2, <1>3, <1>5, AssignKeeps
<1>6. CASE staff' = [staff EXCEPT ![u] = row] /\ (assigns => roles[r] # NoRole)
  <2>1. {"role", "version"} \subseteq DOMAIN staff[u]
    BY <1>4 DEF RoleInv
  <2>2. /\ DOMAIN row = DOMAIN staff[u]
        /\ row.role = IF assigns THEN r ELSE staff[u].role
    BY <2>1 DEF Overwritten
  <2>. HIDE DEF row, p, u, r, assigns
  <2>3. /\ staff' = [x \in StaffIds |-> staff'[x]]
        /\ \A x \in StaffIds : staff'[x] = IF x = u THEN row ELSE staff[x]
    BY <1>4, <1>6 DEF RoleInv
  <2>4. \A x \in StaffIds : /\ {"role", "version"} \subseteq DOMAIN staff'[x]
                           /\ staff'[x].role \in RoleIds /\ roles[staff'[x].role] # NoRole
    BY <1>4, <1>6, <2>1, <2>2, <2>3 DEF RoleInv
  <2>5. ASSUME NEW t \in Transactions PROVE EditFits(edit[t])'
    <3>1. EditFits(edit[t])
      BY DEF RoleInv
    <3>2. CASE edit[t].op = "update"
      <4>1. assigns => edit[t].role # r
        BY <1>3, <3>2 DEF Locked
      <4>2. \A x \in StaffIds : staff'[x].role = edit[t].role => staff[x].role = edit[t].role
        BY <2>2, <2>3, <4>1
      <4>3. Holders(edit[t].role) = {} => {x \in StaffIds : staff'[x].role = edit[t].role} = {}
        BY <4>2 DEF Holders
      <4>. QED
        BY <1>3, <3>1, <3>2, <4>3 DEF EditFits, Holders
    <3>3. CASE edit[t].op # "update"
      BY <1>3, <3>1, <3>3 DEF EditFits
    <3>. QED
      BY <3>2, <3>3
  <2>6. /\ assign' = [x \in Assignments |-> assign'[x]]
        /\ \A x \in Assignments : AssignFits(assign'[x])
    BY <1>2, <1>3 DEF RoleInv
  <2>. QED
    BY <1>3, <2>3, <2>4, <2>5, <2>6 DEF RoleInv, AssignFits
<1>. QED
  BY <1>3, <1>5, <1>6

LEMMA RoleSteps == RoleInv /\ [RolesNext]_roleVars => RoleInv'
<1>. SUFFICES ASSUME RoleInv, [RolesNext]_roleVars PROVE RoleInv'
  OBVIOUS
<1>1. ASSUME roles' = roles, staff' = staff, edit' = edit, spare' = spare, assign' = assign
      PROVE  RoleInv'
  <2>1. \A t \in Transactions : EditFits(edit'[t])
    BY <1>1 DEF RoleInv
  <2>. QED
    BY <1>1, <2>1, ZenonT(40) DEF RoleInv, EditFits, AssignFits, Holders
<1>2. ASSUME UNCHANGED <<roles, staff, edit, assign, spare>> PROVE RoleInv'
  BY <1>1, <1>2
<1>3. ASSUME NEW l \in Lookups, LookupStep(l) \/ (\E u \in StaffIds : Ask(l, u)) PROVE RoleInv'
  BY <1>2, <1>3 DEF LookupStep, Consult, Query, Store, Ask
<1>4. CASE Pass \/ UNCHANGED roleVars
  BY <1>2, <1>4 DEF Pass, roleVars
<1>5. ASSUME NEW a \in Assignments,
             AssignStep(a) \/ (\E u \in StaffIds, r \in RoleIds \cup {NoRole} : LoadUser(a, u, r))
      PROVE  RoleInv'
  BY <1>5, LoadUserKeeps, FindRoleKeeps, ReloadUserKeeps, FlushUserKeeps DEF AssignStep
<1>6. ASSUME NEW t \in Transactions, EditStep(t) PROVE RoleInv'
  BY <1>6, ReplaceSectionsKeeps, CommitKeeps, RefuseKeeps DEF EditStep
<1>7. ASSUME NEW t \in Transactions, NEW r \in RoleIds,
             \/ BeginDelete(t, r)
             \/ \E g \in RoleGroups, sections \in SUBSET Sections :
                  BeginCreate(t, r, g, sections) \/ BeginUpdate(t, r, g, sections)
      PROVE  RoleInv'
  BY <1>7, BeginDeleteKeeps, BeginCreateKeeps, BeginUpdateKeeps
<1>. QED
  BY <1>3, <1>4, <1>5, <1>6, <1>7 DEF RolesNext

\* Whatever is edited and assigned at the same time, a role keeps its group, and is
\* not deleted, for as long as somebody holds it.
THEOREM UsedRolesKeepTheirGroupHolds == RolesSpec => UsedRolesKeepTheirGroup
<1>. DEFINE Step == \A u \in StaffIds :
              /\ roles'[staff[u].role] # NoRole
              /\ roles'[staff[u].role].group = roles[staff[u].role].group
<1>1. RoleInv /\ [RolesNext]_roleVars => [Step]_roleVars
  <2>. SUFFICES ASSUME RoleInv, RolesNext PROVE Step
    OBVIOUS
  <2>1. roles' = roles \/ \E t \in Transactions : CommitEdit(t)
    <3>1. ASSUME NEW t \in Transactions, EditStep(t) PROVE roles' = roles \/ CommitEdit(t)
      BY <3>1 DEF EditStep, ReplaceSections, Refuse
    <3>2. ASSUME NEW t, NEW r, NEW g, NEW sections,
                 BeginDelete(t, r) \/ BeginCreate(t, r, g, sections) \/ BeginUpdate(t, r, g, sections)
          PROVE  roles' = roles
      BY <3>2 DEF BeginDelete, BeginCreate, BeginUpdate
    <3>3. ASSUME NEW a, NEW u, NEW r, AssignStep(a) \/ LoadUser(a, u, r) PROVE roles' = roles
      BY <3>3 DEF AssignStep, FindRole, ReloadUser, FlushUser, LoadUser
    <3>4. ASSUME NEW l, NEW u, LookupStep(l) \/ Ask(l, u) \/ Pass PROVE roles' = roles
      BY <3>4 DEF LookupStep, Consult, Query, Store, Ask, Pass
    <3>. QED
      BY <3>1, <3>2, <3>3, <3>4 DEF RolesNext
  <2>. QED
    BY <2>1, CommitSpares DEF RoleInv
<1>. QED
  BY <1>1, RolesStart, RoleSteps, PTL DEF RolesSpec, UsedRolesKeepTheirGroup

-----------------------------------------------------------------------------
(***************************************************************************)
(* Sign-in, for any number of people and requests and any limits.           *)
(***************************************************************************)

\* An account carries no identity but that of the person whose mailbox it has.
AccountsFit(rows) ==
  /\ rows \in [Ids -> AccountRow \cup {Nobody}]
  /\ \A i \in Ids : rows[i] # Nobody => rows[i].oauth \in {Nobody, rows[i].email}

VisitFits(q, rows) ==
  /\ {"op", "pc"} \subseteq DOMAIN q
  /\ q.pc # "none" =>
       {"person", "account", "entity", "columns", "result"} \subseteq DOMAIN q /\ q.person \in People
  /\ q.pc \in {"reload", "flush"} =>
       /\ q.account \in Ids /\ rows[q.account] # Nobody /\ q.entity \in AccountRow
       /\ q.entity.email = rows[q.account].email
       /\ q.entity.oauth \in {Nobody, q.entity.email}
  /\ q.pc = "existing" => \E i \in Ids : rows[i] # Nobody /\ rows[i].email = q.person
  /\ q.pc \in {"load", "wrong"} => q.op # "oauth"
  /\ q.pc = "wrong" => q.op = "login"
  /\ q.op = "oauth" /\ q.pc = "done" => q.result = "session"

VisitsInv ==
  /\ AccountsFit(accounts)
  /\ visit = [v \in Visits |-> visit[v]] /\ \A v \in Visits : VisitFits(visit[v], accounts)

\* Logins of a person that the throttle let in and that may still fail.
Trying(p) ==
  {v \in Visits : visit[v].op = "login" /\ visit[v].pc \in {"load", "wrong"} /\ visit[v].person = p}

\* While nobody can begin, the failures there may be are those under way.
ThrottleInv ==
  /\ bucket \in [People -> [failures : Nat, locked : BOOLEAN, age : Nat]]
  /\ wrong \in [People -> Nat]
  /\ \A p \in People :
       /\ bucket[p].locked <=> bucket[p].failures >= MaxFailures
       /\ ~bucket[p].locked => wrong[p] <= bucket[p].failures
       /\ bucket[p].locked /\ ~LockedOut(p) => wrong[p] = 0
       /\ LockedOut(p) => wrong[p] + Cardinality(Trying(p)) < MaxFailures + Cardinality(Visits)

SignInInv == VisitsInv /\ ThrottleInv

\* Accounts stay, with their mailbox.
Kept(rows, later) ==
  \A i \in Ids : rows[i] # Nobody => later[i] # Nobody /\ later[i].email = rows[i].email

LEMMA FitsStill ==
  ASSUME NEW q, NEW rows, NEW later, VisitFits(q, rows), Kept(rows, later)
  PROVE  VisitFits(q, later)
<1>1. (\E i \in Ids : rows[i] # Nobody /\ rows[i].email = q.person)
      => \E i \in Ids : later[i] # Nobody /\ later[i].email = q.person
  BY DEF Kept
<1>. QED
  BY <1>1 DEF VisitFits, Kept

LEMMA VisitChanged ==
  ASSUME VisitsInv, NEW v \in Visits, NEW q, visit' = [visit EXCEPT ![v] = q],
         VisitFits(q, accounts'), AccountsFit(accounts'), Kept(accounts, accounts')
  PROVE  /\ VisitsInv'
         /\ \A x \in Visits : visit'[x] = IF x = v THEN q ELSE visit[x]
<1>1. visit' = [x \in Visits |-> visit'[x]]
      /\ \A x \in Visits : visit'[x] = IF x = v THEN q ELSE visit[x]
  BY DEF VisitsInv
<1>2. \A x \in Visits : VisitFits(visit'[x], accounts')
  BY <1>1, FitsStill DEF VisitsInv
<1>3. VisitsInv'
  BY <1>1, <1>2 DEF VisitsInv, VisitFits, AccountsFit, AccountRow
<1>. QED
  BY <1>1, <1>3

LEMMA TryingSizes ==
  /\ Cardinality(Visits) \in Nat
  /\ \A p : IsFiniteSet(Trying(p)) /\ Cardinality(Trying(p)) \in Nat
<1>1. IsFiniteSet(Visits)
  BY ThrottleAssumption
<1>2. \A p : Trying(p) \subseteq Visits
  BY DEF Trying
<1>. QED
  BY <1>1, <1>2, FS_CardinalityType, FS_Subset

\* A step that leaves the throttle alone and lets nobody in whom it has locked out.
LEMMA ThrottleKept ==
  ASSUME ThrottleInv, bucket' = bucket, wrong' = wrong,
         \A p \in People : LockedOut(p) => Trying(p)' \subseteq Trying(p)
  PROVE  ThrottleInv'
<1>1. \A p \in People : LockedOut(p)' <=> LockedOut(p)
  BY DEF LockedOut
<1>2. \A p \in People : LockedOut(p) =>
        Cardinality(Trying(p))' \in Nat /\ Cardinality(Trying(p))' <= Cardinality(Trying(p))
  BY TryingSizes, FS_Subset, FS_CardinalityType
<1>3. \A p \in People : LockedOut(p) =>
        wrong[p] + Cardinality(Trying(p))' < MaxFailures + Cardinality(Visits)
  BY <1>2, TryingSizes, ThrottleAssumption DEF ThrottleInv
<1>. QED
  BY <1>1, <1>3 DEF ThrottleInv

\* A login that succeeds forgets the failures of its person.
LEMMA ThrottleReset ==
  ASSUME ThrottleInv, NEW p \in People, bucket' = [bucket EXCEPT ![p] = NoBucket],
         wrong' = [wrong EXCEPT ![p] = 0], \A x \in People : Trying(x)' \subseteq Trying(x)
  PROVE  ThrottleInv'
<1>1. /\ NoBucket \in [failures : Nat, locked : BOOLEAN, age : Nat]
      /\ NoBucket.failures = 0 /\ ~NoBucket.locked /\ MaxFailures \in Nat \ {0}
  BY ThrottleAssumption DEF NoBucket
<1>2. /\ bucket'[p] = NoBucket /\ wrong'[p] = 0
      /\ \A x \in People \ {p} : bucket'[x] = bucket[x] /\ wrong'[x] = wrong[x]
  BY DEF ThrottleInv
<1>3. bucket' \in [People -> [failures : Nat, locked : BOOLEAN, age : Nat]] /\ wrong' \in [People -> Nat]
  BY <1>1 DEF ThrottleInv
<1>4. \A x \in People : Cardinality(Trying(x))' \in Nat
                     /\ Cardinality(Trying(x))' <= Cardinality(Trying(x))
  BY TryingSizes, FS_Subset, FS_CardinalityType
<1>5. \A x \in People \ {p} : LockedOut(x) =>
        wrong[x] + Cardinality(Trying(x))' < MaxFailures + Cardinality(Visits)
  BY <1>4, TryingSizes, ThrottleAssumption DEF ThrottleInv
<1>6. ASSUME NEW x \in People \ {p}
      PROVE  /\ LockedOut(x)' <=> LockedOut(x)
             /\ bucket[x].locked <=> bucket[x].failures >= MaxFailures
             /\ ~bucket[x].locked => wrong[x] <= bucket[x].failures
             /\ bucket[x].locked /\ ~LockedOut(x) => wrong[x] = 0
  BY <1>2 DEF ThrottleInv, LockedOut
<1>7. ~LockedOut(p)'
  BY <1>1, <1>2 DEF LockedOut
<1>. QED
  BY <1>1, <1>2, <1>3, <1>5, <1>6, <1>7 DEF ThrottleInv

LEMMA VisitKeeps ==
  ASSUME SignInInv, NEW v \in Visits, NEW q, visit' = [visit EXCEPT ![v] = q],
         VisitFits(q, accounts'), AccountsFit(accounts'), Kept(accounts, accounts'),
         bucket' = bucket, wrong' = wrong,
         q.op = "login" /\ q.pc \in {"load", "wrong"} /\ LockedOut(q.person) =>
           v \in Trying(q.person)
  PROVE  SignInInv'
<1>1. /\ VisitsInv'
      /\ \A x \in Visits : visit'[x] = IF x = v THEN q ELSE visit[x]
  BY VisitChanged DEF SignInInv
<1>2. \A p \in People : LockedOut(p) => Trying(p)' \subseteq Trying(p)
  BY <1>1 DEF Trying
<1>. QED
  BY <1>1, <1>2, ThrottleKept DEF SignInInv

\* The same while the accounts stay as they are, and for an entry of visit that is
\* only taken further.
LEMMA VisitGoesOn ==
  ASSUME SignInInv, NEW v \in Visits, NEW q, visit' = [visit EXCEPT ![v] = q],
         VisitFits(q, accounts), accounts' = accounts, bucket' = bucket, wrong' = wrong,
         q.op = "login" /\ q.pc \in {"load", "wrong"} /\ LockedOut(q.person) =>
           v \in Trying(q.person)
  PROVE  SignInInv'
<1>1. AccountsFit(accounts) /\ Kept(accounts, accounts)
  BY DEF SignInInv, VisitsInv, Kept
<1>. QED
  BY <1>1, VisitKeeps

LEMMA SignInStarts == SignInInit => SignInInv
<1>. SUFFICES ASSUME SignInInit PROVE SignInInv
  OBVIOUS
<1>1. accounts = [i \in Ids |-> Nobody] /\ visit = [v \in Visits |-> NoVisit]
      /\ bucket = [p \in People |-> NoBucket] /\ wrong = [p \in People |-> 0]
  BY DEF SignInInit
<1>2. AccountsFit(accounts)
  BY <1>1 DEF AccountsFit
<1>3. VisitFits(NoVisit, accounts)
  BY DEF NoVisit, VisitFits
<1>4. VisitsInv
  BY <1>1, <1>2, <1>3 DEF VisitsInv
<1>5. /\ NoBucket \in [failures : Nat, locked : BOOLEAN, age : Nat]
      /\ NoBucket.failures = 0 /\ NoBucket.locked = FALSE
  BY DEF NoBucket
<1>6. ThrottleInv
  BY <1>1, <1>5, ThrottleAssumption DEF ThrottleInv, LockedOut
<1>. QED
  BY <1>4, <1>6 DEF SignInInv

LEMMA BeginKeeps ==
  ASSUME SignInInv, NEW v \in Visits, NEW o, NEW p \in People, Begin(v, o, p)
  PROVE  SignInInv'
<1>. DEFINE pc == CASE o = "login" -> "load" [] o = "oauth" -> "identity" [] OTHER -> "email"
            q == [op |-> o, person |-> p, account |-> 0, entity |-> Nobody,
                  columns |-> {}, result |-> "none", pc |-> pc]
<1>1. /\ visit' = [visit EXCEPT ![v] = q] /\ (o = "login" => ~LockedOut(p))
      /\ accounts' = accounts /\ bucket' = bucket /\ wrong' = wrong
  BY DEF Begin
<1>2. pc \in {"load", "identity", "email"} /\ (pc = "load" => o = "login")
  OBVIOUS
<1>. HIDE DEF pc
<1>3. VisitFits(q, accounts) /\ q.person = p /\ q.op = o
  BY <1>2 DEF VisitFits
<1>. HIDE DEF q
<1>. QED
  BY <1>1, <1>3, VisitGoesOn

\* A request that only moves on.
LEMMA GotoKeeps ==
  ASSUME SignInInv, NEW v \in Visits, visit[v].pc # "none", NEW pc, Goto(v, pc),
         pc \in {"insert", "email", "existing", "wrong"},
         pc = "wrong" => visit[v].op = "login" /\ visit[v].pc = "load",
         pc = "existing" => WithEmail(visit[v].person) # {},
         accounts' = accounts, bucket' = bucket, wrong' = wrong
  PROVE  SignInInv'
<1>. DEFINE t == visit[v]
            q == [t EXCEPT !.pc = pc]
<1>1. visit' = [visit EXCEPT ![v] = q]
  BY DEF Goto
<1>2. VisitFits(t, accounts)
  BY DEF SignInInv, VisitsInv
<1>3. pc = "wrong" => v \in Trying(t.person)
  BY DEF Trying
<1>4. pc = "existing" => \E i \in Ids : accounts[i] # Nobody /\ accounts[i].email = t.person
  BY DEF WithEmail
<1>5. pc = "wrong" => t.op = "login"
  OBVIOUS
<1>. HIDE DEF t
<1>6. VisitFits(q, accounts) /\ q.person = t.person /\ q.pc = pc
  BY <1>2, <1>4, <1>5 DEF VisitFits, t
<1>. HIDE DEF q
<1>. QED
  BY <1>1, <1>3, <1>6, VisitGoesOn

LEMMA VisitEndKeeps ==
  ASSUME SignInInv, NEW v \in Visits, visit[v].pc # "none", NEW result, End(v, result),
         visit[v].op = "oauth" => result = "session",
         VisitFits(visit[v], accounts'), AccountsFit(accounts'), Kept(accounts, accounts'),
         bucket' = bucket, wrong' = wrong
  PROVE  SignInInv'
<1>. DEFINE t == visit[v]
            q == [t EXCEPT !.pc = "done", !.result = result]
<1>1. visit' = [visit EXCEPT ![v] = q]
  BY DEF End
<1>2. t.pc # "none" /\ (t.op = "oauth" => result = "session") /\ VisitFits(t, accounts')
  OBVIOUS
<1>. HIDE DEF t
<1>3. VisitFits(q, accounts') /\ q.pc = "done"
  BY <1>2 DEF VisitFits
<1>. HIDE DEF q
<1>. QED
  BY <1>1, <1>3, VisitKeeps

\* A request that is refused: never one of Google.
LEMMA RefusedKeeps ==
  ASSUME SignInInv, NEW v \in Visits, visit[v].pc # "none", End(v, "refused"),
         visit[v].op # "oauth", accounts' = accounts, bucket' = bucket, wrong' = wrong
  PROVE  SignInInv'
<1>1. VisitFits(visit[v], accounts) /\ AccountsFit(accounts) /\ Kept(accounts, accounts)
  BY DEF SignInInv, VisitsInv, Kept
<1>. QED
  BY <1>1, VisitEndKeeps

\* An account is loaded, with the identity and the mailbox of the same person.
LEMMA LoadedKeeps ==
  ASSUME SignInInv, NEW v \in Visits, visit[v].pc # "none", NEW i \in Ids, NEW entity,
         Loaded(v, i, entity), accounts[i] # Nobody, entity \in AccountRow,
         entity.email = accounts[i].email, entity.oauth \in {Nobody, entity.email},
         accounts' = accounts, bucket' = bucket, wrong' = wrong
  PROVE  SignInInv'
<1>. DEFINE t == visit[v]
            q == [t EXCEPT !.pc = "reload", !.account = i, !.entity = entity]
<1>1. visit' = [visit EXCEPT ![v] = q]
  BY DEF Loaded
<1>2. t.pc # "none" /\ VisitFits(t, accounts)
  BY DEF SignInInv, VisitsInv
<1>. HIDE DEF t
<1>3. VisitFits(q, accounts) /\ q.pc = "reload"
  BY <1>2 DEF VisitFits
<1>. HIDE DEF q
<1>. QED
  BY <1>1, <1>3, VisitGoesOn

LEMMA LookupsKeep ==
  ASSUME SignInInv, NEW v \in Visits,
         CheckEmail(v) \/ FindIdentity(v) \/ FindEmail(v) \/ FindExisting(v) \/ LoadAccount(v)
  PROVE  SignInInv'
<1>. DEFINE t == visit[v]
            p == t.person
<1>1. t.pc # "none" /\ accounts' = accounts /\ bucket' = bucket /\ wrong' = wrong
  BY DEF CheckEmail, FindIdentity, FindEmail, FindExisting, LoadAccount, Rest
<1>2. VisitFits(t, accounts) /\ p \in People /\ p # Nobody
  BY <1>1, NobodyAssumption DEF SignInInv, VisitsInv, VisitFits
<1>3. /\ accounts \in [Ids -> AccountRow \cup {Nobody}]
      /\ \A i \in Ids : accounts[i] # Nobody =>
           accounts[i] \in AccountRow /\ accounts[i].oauth \in {Nobody, accounts[i].email}
  BY DEF SignInInv, VisitsInv, AccountsFit
<1>4. ASSUME NEW i \in WithEmail(p), Linked(v, i) PROVE SignInInv'
  <2>. DEFINE entity == [accounts[i] EXCEPT !.oauth = p]
  <2>1. i \in Ids /\ accounts[i] # Nobody /\ accounts[i].email = p /\ Loaded(v, i, entity)
    BY <1>4 DEF WithEmail, Linked
  <2>2. entity \in AccountRow /\ entity.email = p /\ entity.oauth = p
    BY <1>2, <1>3, <2>1 DEF AccountRow
  <2>. HIDE DEF entity
  <2>. QED
    BY <1>1, <2>1, <2>2, LoadedKeeps
<1>5. CASE CheckEmail(v)
  BY <1>1, <1>5, RefusedKeeps, GotoKeeps DEF CheckEmail
<1>6. CASE FindIdentity(v)
  <2>1. ASSUME NEW i \in WithIdentity(p), Loaded(v, i, [accounts[i] EXCEPT !.email = p])
        PROVE  SignInInv'
    <3>. DEFINE entity == [accounts[i] EXCEPT !.email = p]
    <3>1. i \in Ids /\ accounts[i] # Nobody /\ accounts[i].oauth = p /\ Loaded(v, i, entity)
      BY <2>1 DEF WithIdentity
    <3>2. accounts[i].email = p /\ accounts[i] \in AccountRow
      BY <1>2, <1>3, <3>1
    <3>3. entity \in AccountRow /\ entity.email = p /\ entity.oauth = p
      BY <1>2, <3>1, <3>2 DEF AccountRow
    <3>. HIDE DEF entity
    <3>. QED
      BY <1>1, <3>1, <3>2, <3>3, LoadedKeeps
  <2>. QED
    BY <1>1, <1>6, <2>1, GotoKeeps DEF FindIdentity
<1>7. CASE FindEmail(v)
  BY <1>1, <1>4, <1>7, GotoKeeps DEF FindEmail
<1>8. CASE FindExisting(v)
  <2>1. WithEmail(p) # {}
    BY <1>2, <1>8 DEF FindExisting, VisitFits, WithEmail
  <2>. QED
    BY <1>4, <1>8, <2>1 DEF FindExisting
<1>9. CASE LoadAccount(v)
  <2>1. ASSUME NEW i \in WithEmail(p), Loaded(v, i, accounts[i]) PROVE SignInInv'
    <3>1. i \in Ids /\ accounts[i] # Nobody
      BY <2>1 DEF WithEmail
    <3>. QED
      BY <1>1, <1>3, <2>1, <3>1, LoadedKeeps
  <2>2. t.pc = "load"
    BY <1>9 DEF LoadAccount
  <2>. QED
    BY <1>1, <1>9, <2>1, <2>2, GotoKeeps DEF LoadAccount
<1>. QED
  BY <1>5, <1>6, <1>7, <1>8, <1>9

LEMMA InsertKeeps ==
  ASSUME SignInInv, NEW v \in Visits, Insert(v)
  PROVE  SignInInv'
<1>. DEFINE t == visit[v]
            p == t.person
            row == [email |-> p, oauth |-> IF t.op = "oauth" THEN p ELSE Nobody,
                    password |-> IF t.op = "oauth" THEN "random" ELSE "own"]
<1>1. t.pc = "insert" /\ bucket' = bucket /\ wrong' = wrong
  BY DEF Insert, Rest
<1>2. VisitFits(t, accounts) /\ p \in People
  BY <1>1 DEF SignInInv, VisitsInv, VisitFits
<1>3. CASE WithEmail(p) # {}
  <2>1. Conflict(v) /\ accounts' = accounts
    BY <1>3 DEF Insert
  <2>. QED
    BY <1>1, <1>3, <2>1, GotoKeeps, RefusedKeeps DEF Conflict
<1>4. CASE WithEmail(p) = {}
  <2>1. PICK i \in Ids : NextId(i) /\ accounts' = [accounts EXCEPT ![i] = row]
    BY <1>4 DEF Insert
  <2>2. row \in AccountRow /\ row.email = p /\ row.oauth \in {Nobody, p} /\ row # Nobody
    BY <1>2, NobodyAssumption DEF AccountRow
  <2>3. \/ t.op = "oauth" /\ End(v, "session")
        \/ t.op = "register" /\ Goto(v, "load")
        \/ t.op \notin {"oauth", "register"} /\ End(v, "created")
    BY <1>4 DEF Insert
  <2>. HIDE DEF row
  <2>4. \A x \in Ids : accounts'[x] = IF x = i THEN row ELSE accounts[x]
    BY <2>1 DEF SignInInv, VisitsInv, AccountsFit
  <2>5. accounts' \in [Ids -> AccountRow \cup {Nobody}]
    BY <2>1, <2>2 DEF SignInInv, VisitsInv, AccountsFit
  <2>6. AccountsFit(accounts')
    BY <2>2, <2>4, <2>5 DEF SignInInv, VisitsInv, AccountsFit
  <2>7. Kept(accounts, accounts')
    BY <2>1, <2>4 DEF Kept, NextId
  <2>8. VisitFits(t, accounts')
    BY <1>2, <2>7, FitsStill
  <2>9. ASSUME t.op = "register", Goto(v, "load") PROVE SignInInv'
    <3>. DEFINE q == [t EXCEPT !.pc = "load"]
    <3>1. visit' = [visit EXCEPT ![v] = q] /\ t.op = "register" /\ t.pc = "insert"
      BY <1>1, <2>9 DEF Goto
    <3>. HIDE DEF t
    <3>2. VisitFits(q, accounts') /\ q.op = "register"
      BY <2>8, <3>1 DEF VisitFits
    <3>. HIDE DEF q
    <3>. QED
      BY <1>1, <2>6, <2>7, <3>1, <3>2, VisitKeeps
  <2>. QED
    BY <1>1, <2>3, <2>6, <2>7, <2>8, <2>9, VisitEndKeeps
<1>. QED
  BY <1>3, <1>4

LEMMA ReloadAccountKeeps ==
  ASSUME SignInInv, NEW v \in Visits, ReloadAccount(v)
  PROVE  SignInInv'
<1>. DEFINE t == visit[v]
            columns == Differing(t.entity, accounts[t.account])
            q == [t EXCEPT !.pc = "flush", !.columns = columns]
<1>1. /\ t.pc = "reload" /\ bucket' = bucket /\ wrong' = wrong /\ accounts' = accounts
      /\ visit' = [visit EXCEPT ![v] = q]
  BY DEF ReloadAccount, Rest
<1>2. VisitFits(t, accounts)
  BY DEF SignInInv, VisitsInv
<1>. HIDE DEF columns, t
<1>3. VisitFits(q, accounts) /\ q.pc = "flush"
  BY <1>1, <1>2 DEF VisitFits
<1>. HIDE DEF q
<1>. QED
  BY <1>1, <1>3, VisitGoesOn

\* The UPDATE keeps the mailbox, so the account stays whose it is.
LEMMA FlushAccountKeeps ==
  ASSUME SignInInv, NEW v \in Visits, FlushAccount(v)
  PROVE  SignInInv'
<1>. DEFINE t == visit[v]
            k == t.account
            p == t.person
            row == Overwritten(accounts[k], t.entity, t.columns)
            q == [t EXCEPT !.pc = "done", !.result = "session"]
<1>1. /\ t.pc = "flush" /\ visit' = [visit EXCEPT ![v] = q]
      /\ accounts' = [accounts EXCEPT ![k] = row]
  BY DEF FlushAccount, End
<1>2. VisitFits(t, accounts) /\ AccountsFit(accounts)
  BY DEF SignInInv, VisitsInv
<1>3. /\ k \in Ids /\ accounts[k] # Nobody /\ t.entity \in AccountRow /\ p \in People
      /\ t.entity.email = accounts[k].email /\ t.entity.oauth \in {Nobody, t.entity.email}
      /\ accounts[k] \in AccountRow /\ accounts[k].oauth \in {Nobody, accounts[k].email}
  BY <1>1, <1>2 DEF VisitFits, AccountsFit
<1>4. row \in AccountRow /\ row.email = accounts[k].email /\ row.oauth \in {Nobody, row.email}
  BY <1>3 DEF Overwritten, AccountRow
<1>. HIDE DEF row
<1>5. \A i \in Ids : accounts'[i] = IF i = k THEN row ELSE accounts[i]
  BY <1>1, <1>2 DEF AccountsFit
<1>6. AccountsFit(accounts') /\ Kept(accounts, accounts')
  BY <1>1, <1>2, <1>3, <1>4, <1>5, NobodyAssumption DEF AccountsFit, Kept
<1>7. VisitFits(t, accounts')
  BY <1>2, <1>6, FitsStill
<1>8. VisitFits(q, accounts') /\ q.pc = "done"
  <2>. HIDE DEF t
  <2>. QED
    BY <1>1, <1>7 DEF VisitFits
<1>9. CASE t.op # "login"
  <2>1. bucket' = bucket /\ wrong' = wrong
    BY <1>9 DEF FlushAccount
  <2>. HIDE DEF q
  <2>. QED
    BY <1>1, <1>6, <1>8, <2>1, VisitKeeps
<1>10. CASE t.op = "login"
  <2>1. bucket' = [bucket EXCEPT ![p] = NoBucket] /\ wrong' = [wrong EXCEPT ![p] = 0]
    BY <1>10 DEF FlushAccount
  <2>. HIDE DEF q, p
  <2>2. /\ VisitsInv'
        /\ \A x \in Visits : visit'[x] = IF x = v THEN q ELSE visit[x]
    BY <1>1, <1>6, <1>8, VisitChanged DEF SignInInv
  <2>3. \A x \in People : Trying(x)' \subseteq Trying(x)
    BY <1>8, <2>2 DEF Trying
  <2>4. ThrottleInv'
    BY <1>3, <2>1, <2>3, ThrottleReset DEF SignInInv
  <2>. QED
    BY <2>2, <2>4 DEF SignInInv
<1>. QED
  BY <1>9, <1>10

\* One failure more.  The one that locks is not under way any longer.
LEMMA WrongPasswordKeeps ==
  ASSUME SignInInv, NEW v \in Visits, WrongPassword(v)
  PROVE  SignInInv'
<1>. DEFINE t == visit[v]
            q == [t EXCEPT !.pc = "done", !.result = "refused"]
            most == Cardinality(Visits)
<1>1. /\ t.pc = "wrong" /\ visit' = [visit EXCEPT ![v] = q] /\ accounts' = accounts
      /\ bucket' = [bucket EXCEPT ![t.person] = Failed(@)]
      /\ wrong' = [wrong EXCEPT ![t.person] = @ + 1]
  BY DEF WrongPassword, End, SignInInv, ThrottleInv
<1>2. VisitFits(t, accounts) /\ AccountsFit(accounts) /\ Kept(accounts, accounts)
  BY DEF SignInInv, VisitsInv, Kept
<1>3. PICK p \in People : t.op = "login" /\ p = t.person /\ v \in Trying(p)
  BY <1>1, <1>2 DEF VisitFits, Trying
<1>4. VisitFits(q, accounts) /\ q.pc = "done"
  <2>. HIDE DEF t
  <2>. QED
    BY <1>1, <1>2, <1>3 DEF VisitFits
<1>. HIDE DEF q
<1>5. /\ VisitsInv'
      /\ \A x \in Visits : visit'[x] = IF x = v THEN q ELSE visit[x]
  BY <1>1, <1>2, <1>4, VisitChanged DEF SignInInv
<1>6. /\ \A x \in People : Trying(x)' \subseteq Trying(x)
      /\ Trying(p)' \subseteq Trying(p) \ {v}
  BY <1>4, <1>5 DEF Trying
<1>7. /\ most \in Nat /\ MaxFailures \in Nat \ {0} /\ Lockout \in Nat \ {0}
      /\ \A x : Cardinality(Trying(x)) \in Nat
      /\ \A x \in People : Cardinality(Trying(x))' \in Nat
                        /\ Cardinality(Trying(x))' <= Cardinality(Trying(x))
  BY <1>6, TryingSizes, ThrottleAssumption, FS_Subset, FS_CardinalityType
<1>8. Cardinality(Trying(p))' <= Cardinality(Trying(p)) - 1
  <2>1. IsFiniteSet(Trying(p) \ {v}) /\ Cardinality(Trying(p) \ {v}) = Cardinality(Trying(p)) - 1
    BY <1>3, TryingSizes, FS_RemoveElement
  <2>. QED
    BY <1>6, <2>1, FS_Subset
<1>9. Cardinality(Trying(p)) <= most
  <2>1. Trying(p) \subseteq Visits
    BY DEF Trying
  <2>. QED
    BY <2>1, ThrottleAssumption, FS_Subset
<1>. DEFINE b == bucket[p]
            c == bucket'[p]
<1>10. /\ b \in [failures : Nat, locked : BOOLEAN, age : Nat] /\ wrong[p] \in Nat
       /\ b.locked <=> b.failures >= MaxFailures
       /\ ~b.locked => wrong[p] <= b.failures
       /\ b.locked /\ ~LockedOut(p) => wrong[p] = 0
       /\ LockedOut(p) => wrong[p] + Cardinality(Trying(p)) < MaxFailures + most
       /\ LockedOut(p) <=> b.locked /\ b.age < Lockout
  BY <1>3 DEF SignInInv, ThrottleInv, LockedOut
<1>11. /\ c = [failures |-> b.failures + 1, locked |-> b.failures + 1 >= MaxFailures, age |-> 0]
       /\ wrong'[p] = wrong[p] + 1
       /\ \A x \in People \ {p} : bucket'[x] = bucket[x] /\ wrong'[x] = wrong[x]
  BY <1>1, <1>3 DEF Failed, SignInInv, ThrottleInv
<1>12. bucket' \in [People -> [failures : Nat, locked : BOOLEAN, age : Nat]]
       /\ wrong' \in [People -> Nat]
  <2>. DEFINE d == Failed(bucket[p])
  <2>1. d \in [failures : Nat, locked : BOOLEAN, age : Nat]
    BY <1>7, <1>10 DEF Failed
  <2>2. /\ bucket' = [bucket EXCEPT ![p] = d] /\ wrong' = [wrong EXCEPT ![p] = wrong[p] + 1]
        /\ wrong[p] + 1 \in Nat
    BY <1>1, <1>3, <1>10
  <2>. HIDE DEF d
  <2>3. bucket \in [People -> [failures : Nat, locked : BOOLEAN, age : Nat]] /\ wrong \in [People -> Nat]
    BY DEF SignInInv, ThrottleInv
  <2>. QED
    BY <2>1, <2>2, <2>3
<1>13. /\ c.locked <=> c.failures >= MaxFailures
       /\ ~c.locked => wrong'[p] <= c.failures
       /\ c.locked => c.age < Lockout
       /\ c.locked => wrong'[p] + Cardinality(Trying(p))' < MaxFailures + most
  <2>. HIDE DEF b, c, most
  <2>1. c.failures = b.failures + 1 /\ c.age = 0 /\ (c.locked <=> b.failures + 1 >= MaxFailures)
    BY <1>11
  <2>2. b.failures \in Nat /\ b.age \in Nat /\ b.locked \in BOOLEAN
    BY <1>10
  <2>3. ~c.locked => wrong'[p] <= c.failures
    BY <1>7, <1>10, <1>11, <2>1, <2>2
  <2>4. CASE LockedOut(p)
    BY <1>3, <1>7, <1>8, <1>10, <1>11, <2>1, <2>2, <2>3, <2>4
  <2>5. CASE ~LockedOut(p)
    <3>1. wrong[p] < MaxFailures
      BY <1>7, <1>10, <2>2, <2>5
    <3>. QED
      BY <1>3, <1>7, <1>8, <1>9, <1>10, <1>11, <2>1, <2>2, <2>3, <3>1
  <2>. QED
    BY <2>4, <2>5
<1>14. ASSUME NEW x \in People \ {p}
       PROVE  /\ bucket[x].locked <=> bucket[x].failures >= MaxFailures
              /\ ~bucket[x].locked => wrong[x] <= bucket[x].failures
              /\ bucket[x].locked /\ ~LockedOut(x) => wrong[x] = 0
              /\ LockedOut(x) => wrong[x] + Cardinality(Trying(x))' < MaxFailures + most
              /\ wrong[x] \in Nat
  <2>1. LockedOut(x) => wrong[x] + Cardinality(Trying(x)) < MaxFailures + most
    BY DEF SignInInv, ThrottleInv
  <2>2. wrong[x] \in Nat
    BY DEF SignInInv, ThrottleInv
  <2>. HIDE DEF most
  <2>3. LockedOut(x) => wrong[x] + Cardinality(Trying(x))' < MaxFailures + most
    BY <1>7, <2>1, <2>2
  <2>. QED
    BY <2>2, <2>3 DEF SignInInv, ThrottleInv
<1>15. ThrottleInv'
  <2>. HIDE DEF b
  <2>. QED
    BY <1>11, <1>12, <1>13, <1>14 DEF ThrottleInv, LockedOut
<1>. QED
  BY <1>5, <1>15 DEF SignInInv

LEMMA ElapseKeeps ==
  ASSUME SignInInv, Elapse
  PROVE  SignInInv'
<1>. DEFINE limit == Lockout + BucketTtl + 1
            older == [p \in People |->
                       IF bucket[p] = NoBucket \/ bucket[p].age = limit THEN bucket[p]
                       ELSE [bucket[p] EXCEPT !.age = bucket[p].age + 1]]
<1>1. /\ bucket' = older /\ accounts' = accounts /\ visit' = visit
      /\ wrong' = [p \in People |-> IF LockedOut(p) /\ older[p].age >= Lockout THEN 0 ELSE wrong[p]]
  BY DEF Elapse, SignInInv, ThrottleInv
<1>2. VisitsInv'
  BY <1>1 DEF SignInInv, VisitsInv, VisitFits, AccountsFit, AccountRow
<1>3. /\ limit \in Nat /\ limit >= Lockout /\ Lockout \in Nat \ {0}
      /\ NoBucket.age = 0 /\ NoBucket.locked = FALSE
  BY ThrottleAssumption DEF NoBucket
<1>. HIDE DEF limit
<1>4. ASSUME NEW p \in People
      PROVE  /\ bucket'[p] \in [failures : Nat, locked : BOOLEAN, age : Nat] /\ wrong'[p] \in Nat
             /\ bucket'[p].locked = bucket[p].locked /\ bucket'[p].failures = bucket[p].failures
             /\ LockedOut(p)' => LockedOut(p) /\ wrong'[p] = wrong[p]
             /\ bucket'[p].locked /\ ~LockedOut(p)' => wrong'[p] = 0
             /\ wrong'[p] <= wrong[p]
  <2>1. /\ bucket[p] \in [failures : Nat, locked : BOOLEAN, age : Nat] /\ wrong[p] \in Nat
        /\ bucket[p].locked /\ ~LockedOut(p) => wrong[p] = 0
    BY DEF SignInInv, ThrottleInv
  <2>. DEFINE b == bucket[p]
              c == older[p]
  <2>2. /\ c = b \/ c = [b EXCEPT !.age = b.age + 1]
        /\ b.age = limit => c = b
    OBVIOUS
  <2>3. /\ c \in [failures : Nat, locked : BOOLEAN, age : Nat] /\ c.locked = b.locked
        /\ c.failures = b.failures /\ c.age >= b.age
    BY <2>1, <2>2
  <2>4. bucket'[p] = c /\ wrong'[p] = IF LockedOut(p) /\ c.age >= Lockout THEN 0 ELSE wrong[p]
    BY <1>1
  <2>. HIDE DEF b, c, older
  <2>5. (LockedOut(p) <=> b.locked /\ b.age < Lockout) /\ (LockedOut(p)' <=> c.locked /\ c.age < Lockout)
    BY <2>4 DEF LockedOut, b
  <2>6. b.age \in Nat /\ c.age \in Nat /\ b.locked \in BOOLEAN
    BY <2>1, <2>3 DEF b
  <2>. QED
    BY <1>3, <2>1, <2>3, <2>4, <2>5, <2>6 DEF b
<1>5. bucket' \in [People -> [failures : Nat, locked : BOOLEAN, age : Nat]] /\ wrong' \in [People -> Nat]
  BY <1>1, <1>4
<1>6. \A p \in People : Cardinality(Trying(p))' = Cardinality(Trying(p))
  BY <1>1 DEF Trying
<1>7. \A p \in People : wrong[p] \in Nat /\ bucket[p].failures \in Nat
  BY DEF SignInInv, ThrottleInv
<1>. HIDE DEF older
<1>8. ThrottleInv'
  BY <1>4, <1>5, <1>6, <1>7 DEF SignInInv, ThrottleInv
<1>. QED
  BY <1>2, <1>8 DEF SignInInv

LEMMA EvictKeeps ==
  ASSUME SignInInv, EvictExpired
  PROVE  SignInInv'
<1>1. /\ bucket' = [p \in People |-> IF Stale(bucket[p]) THEN NoBucket ELSE bucket[p]]
      /\ wrong' = [p \in People |-> IF Stale(bucket[p]) THEN 0 ELSE wrong[p]]
      /\ accounts' = accounts /\ visit' = visit
  BY DEF EvictExpired
<1>2. VisitsInv'
  BY <1>1 DEF SignInInv, VisitsInv, VisitFits, AccountsFit, AccountRow
<1>3. /\ NoBucket \in [failures : Nat, locked : BOOLEAN, age : Nat]
      /\ NoBucket.failures = 0 /\ ~NoBucket.locked /\ MaxFailures \in Nat \ {0}
  BY ThrottleAssumption DEF NoBucket
<1>4. \A p \in People : \/ (bucket'[p] = NoBucket /\ wrong'[p] = 0)
                       \/ (bucket'[p] = bucket[p] /\ wrong'[p] = wrong[p])
  BY <1>1 DEF SignInInv, ThrottleInv
<1>5. bucket' \in [People -> [failures : Nat, locked : BOOLEAN, age : Nat]] /\ wrong' \in [People -> Nat]
  BY <1>1, <1>3 DEF SignInInv, ThrottleInv
<1>6. \A p \in People : Cardinality(Trying(p))' = Cardinality(Trying(p))
  BY <1>1 DEF Trying
<1>7. ThrottleInv'
  BY <1>3, <1>4, <1>5, <1>6 DEF SignInInv, ThrottleInv, LockedOut
<1>. QED
  BY <1>2, <1>7 DEF SignInInv

LEMMA SignInSteps == SignInInv /\ [SignInNext]_signInVars => SignInInv'
<1>. SUFFICES ASSUME SignInInv, [SignInNext]_signInVars PROVE SignInInv'
  OBVIOUS
<1>1. CASE UNCHANGED signInVars
  <2>1. accounts' = accounts /\ visit' = visit /\ bucket' = bucket /\ wrong' = wrong
    BY <1>1 DEF signInVars
  <2>2. VisitsInv'
    BY <2>1 DEF SignInInv, VisitsInv, VisitFits, AccountsFit, AccountRow
  <2>3. \A p \in People : Trying(p)' \subseteq Trying(p)
    BY <2>1 DEF Trying
  <2>. QED
    BY <2>1, <2>2, <2>3, ThrottleKept DEF SignInInv
<1>2. ASSUME NEW v \in Visits, VisitStep(v) PROVE SignInInv'
  BY <1>2, LookupsKeep, InsertKeeps, WrongPasswordKeeps, ReloadAccountKeeps, FlushAccountKeeps
     DEF VisitStep
<1>3. ASSUME NEW v \in Visits, NEW o, NEW p \in People, Begin(v, o, p) PROVE SignInInv'
  BY <1>3, BeginKeeps
<1>. QED
  BY <1>1, <1>2, <1>3, ElapseKeeps, EvictKeeps DEF SignInNext

\* Google's word is enough, whoever registers, is created or signs in at once: an
\* insert that loses finds the account that won, because mailboxes never change.
THEOREM VerifiedSignInSucceedsHolds == SignInSpec => []VerifiedSignInSucceeds
<1>1. SignInInv => VerifiedSignInSucceeds
  BY DEF SignInInv, VisitsInv, VisitFits, VerifiedSignInSucceeds
<1>. QED
  BY <1>1, SignInStarts, SignInSteps, PTL DEF SignInSpec

\* For any limits of the throttle and any number of logins under way, a person's
\* account takes fewer wrong passwords in a row than the limit and they add up to.
THEOREM AttemptsBoundedHolds == SignInSpec => []AttemptsBounded
<1>1. SignInInv => AttemptsBounded
  <2>. SUFFICES ASSUME SignInInv, NEW p \in People
               PROVE  wrong[p] < MaxFailures + Cardinality(Visits)
    BY DEF AttemptsBounded
  <2>1. /\ wrong[p] \in Nat /\ bucket[p].failures \in Nat
        /\ bucket[p].locked <=> bucket[p].failures >= MaxFailures
        /\ ~bucket[p].locked => wrong[p] <= bucket[p].failures
        /\ bucket[p].locked /\ ~LockedOut(p) => wrong[p] = 0
        /\ LockedOut(p) => wrong[p] + Cardinality(Trying(p)) < MaxFailures + Cardinality(Visits)
    BY DEF SignInInv, ThrottleInv
  <2>2. /\ Cardinality(Visits) \in Nat /\ Cardinality(Trying(p)) \in Nat
        /\ MaxFailures \in Nat \ {0}
    BY TryingSizes, ThrottleAssumption
  <2>3. bucket[p].locked \in BOOLEAN /\ (LockedOut(p) => bucket[p].locked)
    BY DEF SignInInv, ThrottleInv, LockedOut
  <2>. QED
    BY <2>1, <2>2, <2>3
<1>. QED
  BY <1>1, SignInStarts, SignInSteps, PTL DEF SignInSpec

-----------------------------------------------------------------------------
\* What is proved of a part holds for the accounts as a whole: their behaviours
\* are behaviours of each part.
THEOREM PartsOfTheAccounts == AccountsSpec => SessionsSpec /\ RolesSpec /\ SignInSpec
<1>1. AccountsInit => SessionsInit /\ RolesInit /\ SignInInit
  BY DEF AccountsInit
<1>2. [AccountsNext]_accountVars =>
        [SessionsNext]_sessionVars /\ [RolesNext]_roleVars /\ [SignInNext]_signInVars
  BY DEF AccountsNext, accountVars
<1>. QED
  BY <1>1, <1>2, PTL DEF AccountsSpec, SessionsSpec, RolesSpec, SignInSpec
=============================================================================
