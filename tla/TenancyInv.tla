---------------------------- MODULE TenancyInv ----------------------------
(***************************************************************************)
(* The inductive invariant of accounts: what a handler has in memory, and  *)
(* that it is still what the tables say as long as nobody else has         *)
(* committed since the handler began.                                      *)
(***************************************************************************)
EXTENDS Tenancy

OnAddress == {"insertAddress", "updateAddress", "deleteAddress"}

\* Which command a handler executes, by where it is.
KindsAt(place) ==
  CASE place \in {"insert", "publish"} -> {"register"}
    [] place \in {"compare", "profile"} -> {"signIn"}
    [] place \in {"read", "write"} -> {"signIn", "updatePassword"}
    [] place = "lookUp" -> {"forgotPassword"}
    [] place \in {"find", "conclude"} -> {"updatePassword"}
    [] place = "revoke" -> {"signOut"}
    [] place = "writeTenant" -> {"updateTenant"}
    [] place = "insertAddress" -> {"createAddress"}
    [] place = "updateAddress" -> {"updateAddress"}
    [] place = "deleteAddress" -> {"deleteAddress"}

\* The lock and the count of a row or an aggregate agree.
LockAgrees(a) == (a.lockedUntil # None) <=> (a.attempts >= Threshold)

\* A handler's command and aggregate.
Handler(r) ==
  /\ pc[r] \in Places => cmd[r] \in workload /\ cmd[r].kind \in KindsAt(pc[r])
  /\ pc[r] \in {"insert", "compare", "read", "write", "profile"} =>
       agg[r] \in IdentityAggregate /\ LockAgrees(agg[r])
  /\ pc[r] \in {"compare", "read", "write", "profile"} =>
       identity[agg[r].id] # None
  /\ pc[r] = "writeTenant" => agg[r] \in TenantAggregate
  /\ pc[r] \in OnAddress => agg[r] \in AddressAggregate
  /\ pc[r] = "insertAddress" => agg[r].id = r
  /\ pc[r] = "find" => issued[cmd[r].token] # None
  /\ pc[r] \in {"read", "write"} /\ cmd[r].kind = "updatePassword" =>
       /\ issued[cmd[r].token] # None
       /\ agg[r].id = issued[cmd[r].token].id

HandlerState == \A r \in Requests : Handler(r)

\* What a request makes is not there before it ends.
Fresh(r) == pc[r] \notin Ended => issued[r] = None /\ address[r] = None

NothingFromTheFuture == \A r \in Requests : Fresh(r)

\* A token was signed for an identity that is there.
TokensHaveIdentities ==
  \A t \in Token : issued[t] # None => identity[issued[t].id] # None

\* The outcome of an attempt on row, as Compare left it in the aggregate.
Tried(password, a, row) ==
  IF row.password.of = password THEN a.attempts = 0 /\ a.lockedUntil = None
  ELSE /\ a.attempts = IF row.attempts < MaxCount THEN row.attempts + 1 ELSE MaxCount
       /\ IF a.attempts < Threshold THEN a.lockedUntil = None
          ELSE a.lockedUntil \in LockTime .. (now + LockTime)

\* The row the aggregate of a sign-in was loaded from, and nobody has written.
SignInCurrent(r) ==
  LET a == agg[r]
      row == identity[a.id] IN
  /\ row.lockedUntil \in {None} \cup 0 .. now
  /\ a.password = row.password
  /\ pc[r] = "compare" => a.attempts = row.attempts /\ a.lockedUntil = row.lockedUntil
  /\ pc[r] \in {"read", "write"} => Tried(cmd[r].password, a, row)

ResetCurrent(r) ==
  LET a == agg[r]
      row == identity[a.id] IN
  /\ a.password.of = cmd[r].password
  /\ pc[r] = "read" => a.password.salt = None
  /\ a.attempts = row.attempts /\ a.lockedUntil = row.lockedUntil

\* As long as no other command has committed, what it read is what is there.
Current(r) ==
  ~contested[r] =>
    /\ pc[r] = "insert" => There = {} /\ agg[r] = Register(r, cmd[r])
    /\ pc[r] \in {"compare", "read", "write"} /\ cmd[r].kind = "signIn" =>
         SignInCurrent(r)
    /\ pc[r] \in {"read", "write"} /\ cmd[r].kind = "updatePassword" =>
         ResetCurrent(r)
    /\ pc[r] = "writeTenant" =>
         /\ profile[agg[r].tenant] \in TenantRow
         /\ agg[r] = EditTenant(agg[r].tenant, cmd[r])
    /\ pc[r] = "insertAddress" =>
         agg[r].name = cmd[r].name /\ agg[r].city = cmd[r].city
    /\ pc[r] = "updateAddress" =>
         /\ address[cmd[r].address] # None
         /\ agg[r] = EditAddress(AddressOf(cmd[r].address), cmd[r])
    /\ pc[r] = "deleteAddress" =>
         /\ address[cmd[r].address] # None
         /\ agg[r] = AddressOf(cmd[r].address)

UncontestedIsCurrent == \A r \in Requests : Current(r)

AccountInv ==
  /\ TypeOK
  /\ WarehousesHaveAddresses
  /\ LockMatchesCount
  /\ LimitRespected
  /\ TenantlessForReason
  /\ HandlerState
  /\ NothingFromTheFuture
  /\ TokensHaveIdentities
  /\ UncontestedIsCurrent
=============================================================================
