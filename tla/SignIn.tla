-------------------------------- MODULE SignIn --------------------------------
(***************************************************************************)
(* How people come to an account: registration, creation by staff, password*)
(* logins behind the login throttle, and Google sign-ins, which find, link *)
(* or create an account (auth.service.ts, auth.controller.ts,              *)
(* login-throttle.service.ts, oauth2.controller.ts, admin-users.service.ts *)
(* createInternalUser).  A person has one mailbox and one Google identity; *)
(* an account carries the person whose mailbox and identity it has.        *)
(***************************************************************************)
EXTENDS Naturals, FiniteSets, EntitySave

CONSTANTS
  People,
  Visits,       \* requests under way at one time
  MaxFailures,  \* LOGIN_MAX_FAILURES
  Lockout,      \* LOGIN_LOCKOUT_MS in ticks
  BucketTtl,    \* bucketTtlMs in ticks
  Mixes,        \* the operations of a behaviour
  Nobody,
  MaxVisits     \* bound: requests

ASSUME ThrottleAssumption ==
  /\ MaxFailures \in Nat \ {0} /\ Lockout \in Nat \ {0} /\ BucketTtl \in Nat
  /\ MaxVisits \in Nat /\ IsFiniteSet(Visits)

VARIABLES
  accounts, \* [ids -> [email, oauth, password] or Nobody], committed
  visit,    \* [Visits -> the request being handled]
  bucket,   \* [People -> failure bucket, failures = 0 when there is none]
  mix,      \* the operations of this behaviour
  visits,   \* counter of the bound
  wrong     \* history: wrong passwords tried since the person was last unlocked

signInVars == <<accounts, visit, bucket, mix, visits, wrong>>

Ids == 1 .. MaxVisits
NoVisit == [op |-> "none", pc |-> "none"]
AccountRow == [email : People, oauth : People \cup {Nobody}, password : {"own", "random"}]

ASSUME NobodyAssumption == Nobody \notin People \cup AccountRow

NoBucket == [failures |-> 0, locked |-> FALSE, age |-> 0]

SignInInit ==
  /\ accounts = [i \in Ids |-> Nobody]
  /\ visit = [v \in Visits |-> NoVisit]
  /\ bucket = [p \in People |-> NoBucket]
  /\ mix \in Mixes
  /\ visits = 0
  /\ wrong = [p \in People |-> 0]

WithEmail(p) == {i \in Ids : accounts[i] # Nobody /\ accounts[i].email = p}
WithIdentity(p) == {i \in Ids : accounts[i] # Nobody /\ accounts[i].oauth = p}

Goto(v, pc) == visit' = [visit EXCEPT ![v].pc = pc]
End(v, result) == visit' = [visit EXCEPT ![v].pc = "done", ![v].result = result]

Rest == UNCHANGED <<bucket, mix, visits, wrong>>

-----------------------------------------------------------------------------
(* login-throttle.service.ts                                               *)

LockedOut(p) == bucket[p].locked /\ bucket[p].age < Lockout

\* Mutant of Failed: one failure more is forgiven.
FailedLate(b) ==
  [failures |-> b.failures + 1, locked |-> b.failures + 1 > MaxFailures, age |-> 0]

\* recordFailure
Failed(b) ==
  [failures |-> b.failures + 1, locked |-> b.failures + 1 >= MaxFailures, age |-> 0]

\* Time passes.  The ages beyond the eviction limit are all alike.
Elapse ==
  LET limit == Lockout + BucketTtl + 1
      older == [p \in People |->
                 IF bucket[p] = NoBucket \/ bucket[p].age = limit THEN bucket[p]
                 ELSE [bucket[p] EXCEPT !.age = @ + 1]]
  IN /\ bucket' = older
     /\ wrong' = [p \in People |->
          IF LockedOut(p) /\ older[p].age >= Lockout THEN 0 ELSE wrong[p]]
     /\ UNCHANGED <<accounts, visit, mix, visits>>

\* evictExpired, on its timer: a lock counts from its end.
Stale(b) == b.age > (IF b.locked THEN Lockout ELSE 0) + BucketTtl

EvictExpired ==
  /\ \E p \in People : bucket[p] # NoBucket /\ Stale(bucket[p])
  /\ bucket' = [p \in People |-> IF Stale(bucket[p]) THEN NoBucket ELSE bucket[p]]
  /\ wrong' = [p \in People |-> IF Stale(bucket[p]) THEN 0 ELSE wrong[p]]
  /\ UNCHANGED <<accounts, visit, mix, visits>>

-----------------------------------------------------------------------------
(* The requests.                                                           *)

\* A login is let in by the throttle before it sleeps; the others start by
\* looking for the mailbox or the identity.
Begin(v, op, p) ==
  /\ visit[v].pc \in {"none", "done"} /\ visits < MaxVisits /\ op \in mix
  /\ op = "login" => ~LockedOut(p)
  /\ visit' = [visit EXCEPT ![v] =
       [op |-> op, person |-> p, account |-> 0, entity |-> Nobody,
        columns |-> {}, result |-> "none",
        pc |-> CASE op = "login" -> "load"
                 [] op = "oauth" -> "identity"
                 [] OTHER -> "email"]]
  /\ visits' = visits + 1
  /\ UNCHANGED <<accounts, bucket, mix, wrong>>

\* register, createInternalUser: a taken mailbox is a 409.
CheckEmail(v) ==
  /\ visit[v].pc = "email" /\ visit[v].op # "oauth"
  /\ IF WithEmail(visit[v].person) # {}
     THEN End(v, "refused") ELSE Goto(v, "insert")
  /\ UNCHANGED accounts /\ Rest

\* The entity of account i, as the request will save it.
Loaded(v, i, entity) ==
  visit' = [visit EXCEPT ![v].pc = "reload", ![v].account = i,
                         ![v].entity = entity]

FindIdentity(v) ==
  LET p == visit[v].person IN
  /\ visit[v].pc = "identity"
  /\ \/ \E i \in WithIdentity(p) :
          Loaded(v, i, [accounts[i] EXCEPT !.email = p])
     \/ WithIdentity(p) = {} /\ Goto(v, "email")
  /\ UNCHANGED accounts /\ Rest

\* An account with the mailbox is linked to the identity.
Linked(v, i) ==
  LET p == visit[v].person IN Loaded(v, i, [accounts[i] EXCEPT !.oauth = p])

FindEmail(v) ==
  LET p == visit[v].person IN
  /\ visit[v].pc = "email" /\ visit[v].op = "oauth"
  /\ \/ \E i \in WithEmail(p) : Linked(v, i)
     \/ WithEmail(p) = {} /\ Goto(v, "insert")
  /\ UNCHANGED accounts /\ Rest

\* Mutant of Conflict: the unique violation is an error for everybody.
ConflictFails(v) == End(v, "refused")

\* The unique index on the mailbox has refused the row: a Google sign-in takes
\* the account that is there, the others answer 409.
Conflict(v) ==
  IF visit[v].op = "oauth" THEN Goto(v, "existing") ELSE End(v, "refused")

\* The next number of the sequence; the bound leaves one for each request.
NextId(i) == accounts[i] = Nobody /\ \A n \in 1 .. (i - 1) : accounts[n] # Nobody

Insert(v) ==
  LET p == visit[v].person
      row == [email |-> p, oauth |-> IF visit[v].op = "oauth" THEN p ELSE Nobody,
              password |-> IF visit[v].op = "oauth" THEN "random" ELSE "own"]
  IN /\ visit[v].pc = "insert"
     /\ IF WithEmail(p) = {}
        THEN /\ \E i \in Ids :
                  NextId(i) /\ accounts' = [accounts EXCEPT ![i] = row]
             /\ CASE visit[v].op = "oauth" -> End(v, "session")
                  [] visit[v].op = "register" -> Goto(v, "load")
                  [] OTHER -> End(v, "created")
        ELSE Conflict(v) /\ UNCHANGED accounts
     /\ Rest

FindExisting(v) ==
  LET p == visit[v].person IN
  /\ visit[v].pc = "existing"
  /\ \/ \E i \in WithEmail(p) : Linked(v, i)
     \/ WithEmail(p) = {} /\ End(v, "refused")
  /\ UNCHANGED accounts /\ Rest

\* login loads the account and compares the password; a registration ends with
\* a login that is not throttled.
LoadAccount(v) ==
  LET p == visit[v].person IN
  /\ visit[v].pc = "load"
  /\ \/ \E i \in WithEmail(p) :
          accounts[i].password = "own" /\ Loaded(v, i, accounts[i])
     \/ visit[v].op = "login" /\ Goto(v, "wrong")
  /\ UNCHANGED accounts /\ Rest

\* An UnauthorizedException: no such account or a wrong password.
WrongPassword(v) ==
  LET p == visit[v].person IN
  /\ visit[v].pc = "wrong"
  /\ bucket' = [bucket EXCEPT ![p] = Failed(@)]
  /\ wrong' = [wrong EXCEPT ![p] = @ + 1]
  /\ End(v, "refused")
  /\ UNCHANGED <<accounts, mix, visits>>

ReloadAccount(v) ==
  /\ visit[v].pc = "reload"
  /\ visit' = [visit EXCEPT ![v].pc = "flush",
       ![v].columns = Differing(visit[v].entity, accounts[visit[v].account])]
  /\ UNCHANGED accounts /\ Rest

\* The UPDATE and the session; recordSuccess forgets the failures.
FlushAccount(v) ==
  LET p == visit[v].person IN
  /\ visit[v].pc = "flush"
  /\ accounts' = [accounts EXCEPT ![visit[v].account] =
                    Overwritten(@, visit[v].entity, visit[v].columns)]
  /\ IF visit[v].op = "login"
     THEN /\ bucket' = [bucket EXCEPT ![p] = NoBucket]
          /\ wrong' = [wrong EXCEPT ![p] = 0]
     ELSE UNCHANGED <<bucket, wrong>>
  /\ End(v, "session")
  /\ UNCHANGED <<mix, visits>>

VisitStep(v) ==
  \/ CheckEmail(v) \/ FindIdentity(v) \/ FindEmail(v) \/ Insert(v)
  \/ FindExisting(v) \/ LoadAccount(v) \/ WrongPassword(v)
  \/ ReloadAccount(v) \/ FlushAccount(v)

SignInNext ==
  \/ \E v \in Visits :
       VisitStep(v) \/ (\E op \in mix, p \in People : Begin(v, op, p))
  \/ Elapse \/ EvictExpired

SignInSpec == SignInInit /\ [][SignInNext]_signInVars

-----------------------------------------------------------------------------
SignInTypeOK ==
  /\ accounts \in [Ids -> AccountRow \cup {Nobody}]
  /\ bucket \in [People -> [failures : Nat, locked : BOOLEAN, age : Nat]]
  /\ wrong \in [People -> Nat]

\* A person Google has verified always gets in: whoever registers, is created
\* or signs in with the same mailbox at the same time, the account that wins
\* is the one that is linked.
VerifiedSignInSucceeds ==
  \A v \in Visits :
    visit[v].op = "oauth" /\ visit[v].pc = "done" => visit[v].result = "session"

\* However many logins are under way when the throttle locks, no more wrong
\* passwords are tried for one person before time, a success or an eviction
\* has opened it again.
AttemptsBounded ==
  \A p \in People : wrong[p] < MaxFailures + Cardinality(Visits)
=============================================================================
