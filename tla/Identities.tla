----------------------------- MODULE Identities -----------------------------
(***************************************************************************)
(* The identities of one e-mail address and account type: registration,    *)
(* sign-in with its lockout, password resets and sign-out.  A handler      *)
(* loads a row, awaits bcrypt, and AuthenticationRepository.update writes  *)
(* the whole row back, hashing a password that differs from the stored     *)
(* one.  Invalidated tokens and the limit of reset mails live in the       *)
(* process and go with it.                                                 *)
(***************************************************************************)
EXTENDS Naturals

CONSTANTS
  Requests,      \* the commands' executions, each runs once
  InitIds,       \* identities that may exist at start
  InitTokens,    \* tokens that may be out at start
  Passwords,
  Workloads,     \* sets of commands: what clients send in one behaviour
  Threshold,     \* failures that lock (5)
  LockTime,      \* ... for this long (10 minutes)
  MaxCount,      \* where the count of failures sticks
  MaxAttempts,   \* reset mails in a window (3)
  Window,        \* one hour
  ResetLife,     \* 15 minutes
  SessionLife,   \* 1 day
  MaxTime,       \* the clock's bound
  None, Hashed   \* no value; what a hash is the hash of, when no password

\* Id.generate, bcrypt's salts and tokens are fresh: named after the request.
Id == InitIds \cup Requests
Token == InitTokens \cup Requests

ASSUME TimeAssumption ==
  /\ {LockTime, Window, ResetLife, SessionLife, MaxTime} \subseteq Nat
  /\ {Threshold, MaxAttempts} \subseteq Nat \ {0}
  /\ MaxCount \in Nat /\ MaxCount > Threshold
ASSUME NamesAssumption ==
  /\ InitIds \cap Requests = {} /\ InitTokens \cap Requests = {}
  /\ None \notin Nat \cup Id \cup Passwords /\ Hashed \notin Passwords

\* A stored password: of what it is the hash; a plain one has no salt.
Secret == [of : Passwords \cup {Hashed}, salt : Id \cup {None}]
IdentityRow == [password : Secret, attempts : 0 .. MaxCount,
                lockedUntil : Nat \cup {None}]
IdentityAggregate == [id : Id, password : Secret, attempts : 0 .. MaxCount,
                      lockedUntil : Nat \cup {None}]
TokenClaims == [purpose : {"session", "reset"}, id : Id, expires : Nat]
LimitEntry == [count : Nat, resetTime : Nat]

ASSUME RowsAssumption == None \notin IdentityRow \cup TokenClaims \cup LimitEntry

IdentityCommand ==
  [kind : {"register", "signIn"}, password : Passwords]
    \cup [kind : {"forgotPassword"}]
    \cup [kind : {"updatePassword"}, token : Token, password : Passwords]
    \cup [kind : {"signOut"}, token : Token]

VARIABLES
  now,          \* the clock
  accountType,  \* TENANT, or CUSTOMER (EMPLOYEE is alike); never changes
  identity,     \* the committed rows of AuthIdentity
  workload,     \* the commands clients send; never changes
  profile,      \* of each identity, its row of Tenant or Customer, or none
  issued,       \* tokens that were signed
  blacklist,    \* blacklistedTokens
  limiter,      \* the entry of the address in PasswordResetRateLimiter
  events,       \* identities whose AuthenticationRegisterEvent is published
  lost,         \* identities whose event was lost or failed (for properties)
  pc,           \* where each request is in its handler
  cmd,          \* the command it executes
  agg,          \* the aggregate in memory
  contested     \* another request has committed a write since it began

rows == <<identity, profile>>
process == <<issued, blacklist, limiter, events, lost>>
locals == <<cmd, agg, contested>>
fixed == <<accountType, workload>>
identityVars == <<now, fixed, rows, process, pc, locals>>

Ended == {"ok", "refused", "failed"}
Idle == Ended \cup {"idle"}

Working(r) == pc[r] \notin Idle
There == {i \in Id : identity[i] # None}

-----------------------------------------------------------------------------
\* Passwords.

Plain(p) == [of |-> p, salt |-> None]

\* bcrypt.hash: hashing a hash gives what no password opens.
Hash(s, salt) == [of |-> IF s.salt = None THEN s.of ELSE Hashed, salt |-> salt]

\* bcrypt.compare
Opens(p, s) == s.of = p

LoginSucceeded(a) == [a EXCEPT !.attempts = 0, !.lockedUntil = None]

\* Mutant: the count starts again when it locks.
LoginFailedAfresh(a) ==
  IF a.attempts + 1 >= Threshold
  THEN [a EXCEPT !.attempts = 0, !.lockedUntil = now + LockTime]
  ELSE [a EXCEPT !.attempts = @ + 1]

LoginFailed(a) ==
  LET n == IF a.attempts < MaxCount THEN a.attempts + 1 ELSE a.attempts IN
  [a EXCEPT !.attempts = n,
            !.lockedUntil = IF n >= Threshold THEN now + LockTime ELSE @]

Locked(a) == IF a.lockedUntil = None THEN FALSE ELSE now < a.lockedUntil

\* The aggregate of a row, and the row of an aggregate.
FromPersistence(i) ==
  [id |-> i, password |-> identity[i].password,
   attempts |-> identity[i].attempts, lockedUntil |-> identity[i].lockedUntil]
ToDto(a) == [password |-> a.password, attempts |-> a.attempts,
             lockedUntil |-> a.lockedUntil]

-----------------------------------------------------------------------------
\* Tokens and the limiter.

Verifies(t) ==
  IF issued[t] = None THEN FALSE
  ELSE t \notin blacklist /\ now < issued[t].expires
VerifiesReset(t) == IF Verifies(t) THEN issued[t].purpose = "reset" ELSE FALSE

\* Mutant: the check takes the window's last instant for the next window's.
LimitedBefore ==
  IF limiter = None THEN FALSE
  ELSE now < limiter.resetTime /\ limiter.count >= MaxAttempts

IsRateLimited ==
  IF limiter = None THEN FALSE
  ELSE now <= limiter.resetTime /\ limiter.count >= MaxAttempts

RecordAttempt ==
  limiter' = IF limiter # None /\ now <= limiter.resetTime
             THEN [limiter EXCEPT !.count = @ + 1]
             ELSE [count |-> 1, resetTime |-> now + Window]

-----------------------------------------------------------------------------
\* Where a request goes.

Begin(r, c) == pc[r] = "idle" /\ c \in workload

Enter(r, c, place) ==
  /\ pc' = [pc EXCEPT ![r] = place]
  /\ cmd' = [cmd EXCEPT ![r] = c]

Leave(r, outcome) ==
  /\ pc' = [pc EXCEPT ![r] = outcome]
  /\ cmd' = [cmd EXCEPT ![r] = None]
  /\ agg' = [agg EXCEPT ![r] = None]

\* What the others have loaded may be out of date.
Committed(r) ==
  contested' = [q \in Requests |-> q # r /\ Working(q)]
Uncommitted(r) == contested' = [contested EXCEPT ![r] = FALSE]

Clock == UNCHANGED <<now, fixed>>

\* Answered at once, with nothing changed.
Answered(r, outcome) ==
  /\ pc' = [pc EXCEPT ![r] = outcome]
  /\ UNCHANGED <<rows, process, locals>> /\ Clock

-----------------------------------------------------------------------------
\* Registration: the repository looks for the address, hashes, and inserts; the
\* address has an index and no unique key.

Register(r, c) ==
  [id |-> r, password |-> Plain(c.password), attempts |-> 0,
   lockedUntil |-> None]

Unknown == There = {}

StartRegistration(r, c) ==
  /\ Begin(r, c) /\ c.kind = "register" /\ Unknown
  /\ Enter(r, c, "insert")
  /\ agg' = [agg EXCEPT ![r] = Register(r, c)]
  /\ Uncommitted(r)
  /\ UNCHANGED <<rows, process>> /\ Clock

RefuseRegistration(r, c) ==
  /\ Begin(r, c) /\ c.kind = "register" /\ ~Unknown
  /\ Answered(r, "refused")

InsertIdentity(r) ==
  /\ pc[r] = "insert"
  /\ identity' = [identity EXCEPT ![r] =
       [ToDto(agg[r]) EXCEPT !.password = Hash(@, r)]]
  /\ pc' = [pc EXCEPT ![r] = "publish"]
  /\ Committed(r)
  /\ UNCHANGED <<profile, process, cmd, agg>> /\ Clock

\* Mutant: the handler of the event looks for another account type.
OnboardsOthers == accountType = "CUSTOMER"

\* IdentityCreatedHandler acts on the event of a tenant.
Onboards == accountType = "TENANT"

\* auth.commit
Publish(r) ==
  /\ pc[r] = "publish"
  /\ events' = IF Onboards THEN events \cup {r} ELSE events
  /\ Leave(r, "ok")
  /\ UNCHANGED <<rows, issued, blacklist, limiter, lost>> /\ Uncommitted(r) /\ Clock

-----------------------------------------------------------------------------
\* Sign-in.

LoadForSignIn(r, c) ==
  /\ Begin(r, c) /\ c.kind = "signIn"
  /\ \E i \in There :
       /\ ~Locked(identity[i])
       /\ agg' = [agg EXCEPT ![r] = FromPersistence(i)]
  /\ Enter(r, c, "compare")
  /\ Uncommitted(r)
  /\ UNCHANGED <<rows, process>> /\ Clock

RefuseSignIn(r, c) ==
  /\ Begin(r, c) /\ c.kind = "signIn"
  /\ There = {} \/ \E i \in There : Locked(identity[i])
  /\ Answered(r, "refused")

\* bcrypt.compare, then the aggregate's loginSucceeded or loginFailed.
Compare(r) ==
  /\ pc[r] = "compare"
  /\ agg' = [agg EXCEPT ![r] =
       IF Opens(cmd[r].password, @.password) THEN LoginSucceeded(@)
       ELSE LoginFailed(@)]
  /\ pc' = [pc EXCEPT ![r] = "read"]
  /\ UNCHANGED <<rows, process, cmd, contested>> /\ Clock

\* Mutant: the password is hashed whether it is new or not.
RehashedAlways(a, salt) == [a EXCEPT !.password = Hash(@, salt)]

\* AuthenticationRepository.update takes a password that is not the stored one
\* for a new one.
Rehashed(a, salt) ==
  IF a.password = identity[a.id].password THEN a
  ELSE [a EXCEPT !.password = Hash(@, salt)]

ReadStored(r) ==
  /\ pc[r] = "read"
  /\ agg' = [agg EXCEPT ![r] = Rehashed(@, r)]
  /\ pc' = [pc EXCEPT ![r] = "write"]
  /\ UNCHANGED <<rows, process, cmd, contested>> /\ Clock

\* The whole row is written.
Update(r) ==
  /\ identity' = [identity EXCEPT ![agg[r].id] = ToDto(agg[r])]
  /\ Committed(r)
  /\ UNCHANGED <<profile, process>> /\ Clock

\* loginFailed leaves a count, loginSucceeded none.
WriteFailure(r) ==
  /\ pc[r] = "write" /\ cmd[r].kind = "signIn" /\ agg[r].attempts > 0
  /\ Update(r) /\ Leave(r, "refused")

WriteSuccess(r) ==
  /\ pc[r] = "write" /\ cmd[r].kind = "signIn" /\ agg[r].attempts = 0
  /\ Update(r)
  /\ pc' = [pc EXCEPT ![r] = "profile"] /\ UNCHANGED <<cmd, agg>>

Issue(t, purpose, i, life) ==
  issued' = [issued EXCEPT ![t] =
    [purpose |-> purpose, id |-> i, expires |-> now + life]]

\* The counters are cleared before the tenant is looked for.
FindProfile(r) ==
  /\ pc[r] = "profile" /\ profile[agg[r].id] # None
  /\ Issue(r, "session", agg[r].id, SessionLife)
  /\ Leave(r, "ok")
  /\ UNCHANGED <<rows, blacklist, limiter, events, lost>> /\ Uncommitted(r) /\ Clock

NoProfile(r) ==
  /\ pc[r] = "profile" /\ profile[agg[r].id] = None
  /\ Leave(r, "refused")
  /\ UNCHANGED <<rows, process>> /\ Uncommitted(r) /\ Clock

-----------------------------------------------------------------------------
\* Password resets and sign-out.

\* The attempt is recorded before the address is looked for.
AskReset(r, c) ==
  /\ Begin(r, c) /\ c.kind = "forgotPassword" /\ ~IsRateLimited
  /\ RecordAttempt
  /\ Enter(r, c, "lookUp")
  /\ Uncommitted(r)
  /\ UNCHANGED <<rows, issued, blacklist, events, lost, agg>> /\ Clock

RefuseReset(r, c) ==
  /\ Begin(r, c) /\ c.kind = "forgotPassword" /\ IsRateLimited
  /\ Answered(r, "refused")

\* An unknown address gets the same answer and no mail.
MailReset(r) ==
  /\ pc[r] = "lookUp"
  /\ \/ There = {} /\ UNCHANGED issued
     \/ \E i \in There : Issue(r, "reset", i, ResetLife)
  /\ Leave(r, "ok")
  /\ UNCHANGED <<rows, blacklist, limiter, events, lost>> /\ Uncommitted(r) /\ Clock

VerifyReset(r, c) ==
  /\ Begin(r, c) /\ c.kind = "updatePassword" /\ VerifiesReset(c.token)
  /\ Enter(r, c, "find")
  /\ Uncommitted(r)
  /\ UNCHANGED <<rows, process, agg>> /\ Clock

FindOwner(r) ==
  /\ pc[r] = "find"
  /\ agg' = [agg EXCEPT ![r] =
       [FromPersistence(issued[cmd[r].token].id) EXCEPT
          !.password = Plain(cmd[r].password)]]
  /\ pc' = [pc EXCEPT ![r] = "read"]
  /\ UNCHANGED <<rows, process, cmd, contested>> /\ Clock

WriteReset(r) ==
  /\ pc[r] = "write" /\ cmd[r].kind = "updatePassword"
  /\ Update(r)
  /\ pc' = [pc EXCEPT ![r] = "conclude"] /\ UNCHANGED <<cmd, agg>>

\* invalidateToken and clearAttempts
Conclude(r) ==
  /\ pc[r] = "conclude"
  /\ blacklist' = blacklist \cup {cmd[r].token}
  /\ limiter' = None
  /\ Leave(r, "ok")
  /\ UNCHANGED <<rows, issued, events, lost>> /\ Uncommitted(r) /\ Clock

SignOut(r, c) ==
  /\ Begin(r, c) /\ c.kind = "signOut" /\ Verifies(c.token)
  /\ Enter(r, c, "revoke")
  /\ Uncommitted(r)
  /\ UNCHANGED <<rows, process, agg>> /\ Clock

Revoke(r) ==
  /\ pc[r] = "revoke"
  /\ blacklist' = blacklist \cup {cmd[r].token}
  /\ Leave(r, "ok")
  /\ UNCHANGED <<rows, issued, limiter, events, lost>> /\ Uncommitted(r) /\ Clock

RefuseToken(r, c) ==
  /\ Begin(r, c)
  /\ \/ c.kind = "updatePassword" /\ ~VerifiesReset(c.token)
     \/ c.kind = "signOut" /\ ~Verifies(c.token)
  /\ Answered(r, "refused")

-----------------------------------------------------------------------------
\* The process and its clock.

Tick ==
  /\ now < MaxTime /\ now' = now + 1
  /\ UNCHANGED <<fixed, rows, process, pc, locals>>

Expired == IF limiter = None THEN FALSE ELSE now > limiter.resetTime

\* CleanupService, every hour.
Cleanup ==
  /\ Expired /\ limiter' = None
  /\ UNCHANGED <<rows, issued, blacklist, events, lost, pc, locals>> /\ Clock

\* What a request leaves unpublished when it ends in place.
Unpublished(r) == IF pc[r] = "publish" /\ Onboards THEN {r} ELSE {}

\* The process dies and starts again: what it kept in memory is gone.
Restart ==
  /\ blacklist' = {} /\ limiter' = None /\ events' = {}
  /\ lost' = lost \cup events \cup UNION {Unpublished(r) : r \in Requests}
  /\ pc' = [r \in Requests |-> IF Working(r) THEN "failed" ELSE pc[r]]
  /\ cmd' = [r \in Requests |-> None] /\ agg' = [r \in Requests |-> None]
  /\ contested' = [r \in Requests |-> FALSE]
  /\ UNCHANGED <<rows, issued>> /\ Clock

\* A statement, a commit or a mail fails.
Abort(r) ==
  /\ Working(r) /\ Leave(r, "failed")
  /\ lost' = lost \cup Unpublished(r)
  /\ UNCHANGED <<rows, issued, blacklist, limiter, events>> /\ Uncommitted(r) /\ Clock

StartIdentity(r) ==
  \E c \in workload :
    \/ StartRegistration(r, c) \/ RefuseRegistration(r, c)
    \/ LoadForSignIn(r, c) \/ RefuseSignIn(r, c)
    \/ AskReset(r, c) \/ RefuseReset(r, c)
    \/ VerifyReset(r, c) \/ SignOut(r, c) \/ RefuseToken(r, c)

StepIdentity(r) ==
  \/ InsertIdentity(r) \/ Publish(r)
  \/ Compare(r) \/ ReadStored(r)
  \/ WriteFailure(r) \/ WriteSuccess(r) \/ FindProfile(r) \/ NoProfile(r)
  \/ MailReset(r) \/ FindOwner(r) \/ WriteReset(r) \/ Conclude(r)
  \/ Revoke(r)
=============================================================================
