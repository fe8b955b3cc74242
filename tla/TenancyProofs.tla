--------------------------- MODULE TenancyProofs ---------------------------
(***************************************************************************)
(* Accounts, for every set of requests, identities, tokens and addresses,  *)
(* every threshold and time, and all commands, however they overlap with   *)
(* each other, with events, with failures and with restarts.               *)
(***************************************************************************)
EXTENDS TenancyInv, TLAPS

Memory == IdentityAggregate \cup TenantAggregate \cup AddressAggregate \cup {None}

\* The types of what requests have in memory.
LocalsTyped ==
  /\ pc \in [Requests -> Places \cup Idle]
  /\ cmd \in [Requests -> workload \cup {None}]
  /\ agg \in [Requests -> Memory]
  /\ contested \in [Requests -> BOOLEAN]

\* The types of the rest.
TablesTyped ==
  /\ now \in 0 .. MaxTime
  /\ accountType \in {"TENANT", "CUSTOMER"} /\ workload \in Workloads
  /\ identity \in [Id -> IdentityRow \cup {None}]
  /\ profile \in [Id -> TenantRow \cup {Customer, None}]
  /\ issued \in [Token -> TokenClaims \cup {None}]
  /\ blacklist \subseteq Token
  /\ limiter \in LimitEntry \cup {None}
  /\ events \subseteq Id /\ lost \subseteq Id
  /\ address \in [AddressId -> AddressRow \cup {None}]
  /\ inUse \subseteq AddressId

LEMMA TypeParts == TypeOK <=> LocalsTyped /\ TablesTyped
BY DEF TypeOK, LocalsTyped, TablesTyped, Memory

\* Only r's handler moves.
Alone(r) ==
  \A q \in Requests \ {r} : pc'[q] = pc[q] /\ cmd'[q] = cmd[q] /\ agg'[q] = agg[q]

\* What a command of each kind holds.
LEMMA CommandFacts ==
  ASSUME TypeOK, NEW c \in workload
  PROVE  /\ c.kind \in {"register", "signIn", "updatePassword"} =>
              c.password \in Passwords
         /\ c.kind \in {"updatePassword", "signOut", "updateTenant",
                        "createAddress", "updateAddress", "deleteAddress"} =>
              c.token \in Token
         /\ c.kind = "updateTenant" =>
              c.ownerName \in Names \cup {None} /\ c.domain \in Domains \cup {None}
         /\ c.kind = "createAddress" => c.name \in Names /\ c.city \in Cities
         /\ c.kind \in {"updateAddress", "deleteAddress"} => c.address \in AddressId
         /\ c.kind = "updateAddress" =>
              c.name \in Names \cup {None} /\ c.city \in Cities \cup {None}
<1>1. c \in IdentityCommand \cup DirectoryCommand
  BY WorkloadsAssumption DEF TypeOK
<1>2. CASE c \in IdentityCommand
  BY <1>2 DEF IdentityCommand
<1>3. CASE c \in DirectoryCommand
  BY <1>3 DEF DirectoryCommand
<1> QED BY <1>1, <1>2, <1>3

\* What another handler knows stays true when rows and tokens only come, and
\* when rows change it has been overtaken.
LEMMA Others ==
  ASSUME AccountInv, NEW q \in Requests, UNCHANGED fixed, now' \in Nat, now <= now',
         pc'[q] = pc[q], cmd'[q] = cmd[q], agg'[q] = agg[q],
         \A i \in Id : identity[i] # None => identity'[i] # None,
         \A t \in Token : issued[t] # None => issued'[t] = issued[t],
         issued'[q] = issued[q] \/ pc[q] \in Ended,
         address[q] = None => address'[q] = None,
         \/ contested'[q]
         \/ pc[q] \notin Places
         \/ /\ UNCHANGED <<identity, address>> /\ contested'[q] = contested[q]
            /\ \A i \in Id : profile[i] \in TenantRow => profile'[i] = profile[i]
  PROVE  Handler(q)' /\ Fresh(q)' /\ Current(q)'
<1>1. TypeOK /\ Handler(q) /\ Fresh(q) /\ Current(q)
  BY DEF AccountInv, HandlerState, NothingFromTheFuture, UncontestedIsCurrent
<1>2. /\ workload' = workload
      /\ \A p \in {"compare", "read", "write", "profile"} :
           pc[q] = p => agg[q].id \in Id
      /\ pc[q] = "writeTenant" => agg[q].tenant \in Id
  BY <1>1 DEF Handler, IdentityAggregate, TenantAggregate, fixed
<1>3. \A p \in Places : pc[q] = p => cmd[q] \in workload /\ cmd[q].kind \in KindsAt(p)
  BY <1>1 DEF Handler
<1>4. /\ pc[q] = "find" => cmd[q].token \in Token
      /\ pc[q] \in {"read", "write"} /\ cmd[q].kind = "updatePassword" =>
           cmd[q].token \in Token
  BY <1>1, <1>3, CommandFacts DEF Places, KindsAt
<1>5. Handler(q)'
  BY <1>1, <1>2, <1>4 DEF Handler, KindsAt, LockAgrees
<1>6. Fresh(q)'
  BY <1>1 DEF Fresh
<1>7. Current(q)'
  <2> SUFFICES ASSUME ~contested'[q], pc[q] \in Places PROVE Current(q)'
    BY DEF Current, Places, OnAddress
  <2>1. /\ UNCHANGED <<identity, address>> /\ ~contested[q]
        /\ \A i \in Id : profile[i] \in TenantRow => profile'[i] = profile[i]
    OBVIOUS
  <2>2. ASSUME SignInCurrent(q), pc[q] \in {"compare", "read", "write"}
        PROVE  SignInCurrent(q)'
    BY <1>1, <2>1, <2>2, TimeAssumption DEF SignInCurrent, Tried, TypeOK
  <2>3. ResetCurrent(q) => ResetCurrent(q)'
    BY <2>1 DEF ResetCurrent
  <2>4. pc[q] = "insert" /\ There = {} /\ agg[q] = Register(q, cmd[q]) =>
          There' = {} /\ agg'[q] = Register(q, cmd[q])'
    BY <2>1 DEF There, Register, Plain
  <2>5. ASSUME pc[q] = "writeTenant", profile[agg[q].tenant] \in TenantRow,
               agg[q] = EditTenant(agg[q].tenant, cmd[q])
        PROVE  /\ (profile[agg[q].tenant] \in TenantRow)'
               /\ (agg[q] = EditTenant(agg[q].tenant, cmd[q]))'
    BY <1>2, <2>1, <2>5 DEF EditTenant, Or
  <2>6. \A c : AddressOf(c)' = AddressOf(c)
    BY <2>1 DEF AddressOf
  <2> QED BY <1>1, <2>1, <2>2, <2>3, <2>4, <2>5, <2>6 DEF Current, EditAddress, Or
<1> QED BY <1>5, <1>6, <1>7

\* A step of r keeps the invariant when r's own part and the tables keep theirs.
LEMMA OneStep ==
  ASSUME AccountInv, NEW r \in Requests, Alone(r), UNCHANGED <<now, fixed>>,
         TypeOK', WarehousesHaveAddresses', LockMatchesCount', LimitRespected',
         TenantlessForReason', TokensHaveIdentities',
         Handler(r)', Fresh(r)', Current(r)',
         \A i \in Id : identity[i] # None => identity'[i] # None,
         \A t \in Token : issued[t] # None => issued'[t] = issued[t],
         \A q \in Requests \ {r} :
           /\ issued'[q] = issued[q]
           /\ address[q] = None => address'[q] = None
           /\ \/ contested'[q] \/ pc[q] \notin Places
              \/ /\ UNCHANGED <<identity, profile, address>>
                 /\ contested'[q] = contested[q]
  PROVE  AccountInv'
<1>1. now \in Nat
  BY TimeAssumption DEF AccountInv, TypeOK
<1>2. ASSUME NEW q \in Requests \ {r}
      PROVE  Handler(q)' /\ Fresh(q)' /\ Current(q)'
  BY <1>1, Others DEF Alone
<1> QED BY <1>2 DEF AccountInv, HandlerState, NothingFromTheFuture, UncontestedIsCurrent

\* Tables that stay keep what is said of them.
LEMMA TablesSame ==
  ASSUME AccountInv, UNCHANGED <<fixed, identity, profile, issued, limiter, address, inUse>>
  PROVE  /\ WarehousesHaveAddresses' /\ LockMatchesCount' /\ LimitRespected'
         /\ TokensHaveIdentities'
BY DEF AccountInv, WarehousesHaveAddresses, LockMatchesCount, LimitRespected,
       TokensHaveIdentities, There

\* A request that has nothing to publish leaves the tenants' reasons alone.
LEMMA ReasonsSame ==
  ASSUME AccountInv, NEW r \in Requests, pc[r] # "publish", Alone(r),
         UNCHANGED <<fixed, events, lost>>,
         \A i \in Id : identity'[i] # None => identity[i] # None,
         \A i \in Id : profile'[i] = None => profile[i] = None
  PROVE  TenantlessForReason'
BY DEF AccountInv, TenantlessForReason, There, Alone, fixed

\* A step of r in its memory alone.
LEMMA MemoryStep ==
  ASSUME AccountInv, NEW r \in Requests, pc[r] \notin Ended, pc[r] # "publish",
         Alone(r), UNCHANGED <<now, fixed, rows, process, address, inUse>>,
         LocalsTyped', Handler(r)', Current(r)',
         \A q \in Requests \ {r} : contested'[q] = contested[q]
  PROVE  AccountInv'
<1> USE DEF rows, process
<1>1. TypeOK'
  <2>1. TablesTyped
    BY TypeParts DEF AccountInv
  <2>2. TablesTyped'
    BY <2>1 DEF TablesTyped, fixed
  <2>3. TypeOK' <=> LocalsTyped' /\ TablesTyped'
    BY DEF TypeOK, LocalsTyped, TablesTyped, Memory
  <2> QED BY <2>2, <2>3
<1>2. Fresh(r)'
  BY DEF AccountInv, NothingFromTheFuture, Fresh
<1>3. WarehousesHaveAddresses' /\ LockMatchesCount' /\ LimitRespected' /\ TokensHaveIdentities'
  BY TablesSame
<1>4. TenantlessForReason'
  BY ReasonsSame
<1> QED BY <1>1, <1>2, <1>3, <1>4, OneStep

\* A handler that has ended says nothing.
LEMMA EndedFacts ==
  ASSUME NEW r \in Requests, pc'[r] \in Ended
  PROVE  Handler(r)' /\ Fresh(r)' /\ Current(r)'
BY DEF Handler, Fresh, Current, Ended, Places, OnAddress

\* The types of what a request leaves.
LEMMA LeaveFacts ==
  ASSUME TypeOK, NEW r \in Requests, NEW o \in Ended, Leave(r, o),
         UNCHANGED fixed
  PROVE  /\ Alone(r) /\ pc'[r] = o
         /\ contested' \in [Requests -> BOOLEAN] => LocalsTyped'
BY DEF TypeOK, Leave, Alone, LocalsTyped, Memory, Idle, fixed

\* Whom a step overtakes, and whom it does not.
LEMMA ContestedFacts ==
  ASSUME TypeOK, NEW r \in Requests
  PROVE  /\ Committed(r) => /\ contested' \in [Requests -> BOOLEAN]
                            /\ \A q \in Requests \ {r} : contested'[q] \/ pc[q] \notin Places
         /\ Uncommitted(r) => /\ contested' \in [Requests -> BOOLEAN] /\ ~contested'[r]
                              /\ \A q \in Requests \ {r} : contested'[q] = contested[q]
<1>1. ASSUME Committed(r)
      PROVE  /\ contested' \in [Requests -> BOOLEAN]
             /\ \A q \in Requests \ {r} : contested'[q] \/ pc[q] \notin Places
  <2>1. \A q \in Requests : Working(q) \in BOOLEAN /\ (pc[q] \in Places => Working(q))
    BY DEF Working, Idle, Ended, Places
  <2>2. contested' = [q \in Requests |-> q # r /\ Working(q)]
    BY <1>1 DEF Committed
  <2> QED BY <2>1, <2>2
<1>2. ASSUME Uncommitted(r)
      PROVE  /\ contested' \in [Requests -> BOOLEAN] /\ ~contested'[r]
             /\ \A q \in Requests \ {r} : contested'[q] = contested[q]
  BY <1>2 DEF Uncommitted, TypeOK
<1> QED BY <1>1, <1>2

\* A request that enters its handler.
LEMMA EnterFacts ==
  ASSUME TypeOK, NEW r \in Requests, NEW c \in workload, NEW p \in Places,
         pc[r] = "idle", Enter(r, c, p), Uncommitted(r), UNCHANGED fixed,
         agg' \in [Requests -> Memory], \A q \in Requests \ {r} : agg'[q] = agg[q]
  PROVE  /\ LocalsTyped' /\ Alone(r) /\ pc'[r] = p /\ cmd'[r] = c /\ ~contested'[r]
         /\ pc[r] \notin Ended /\ pc[r] # "publish"
         /\ \A q \in Requests \ {r} : contested'[q] = contested[q]
<1>1. /\ contested' \in [Requests -> BOOLEAN] /\ ~contested'[r]
      /\ \A q \in Requests \ {r} : contested'[q] = contested[q]
  BY ContestedFacts
<1> QED BY <1>1 DEF TypeOK, LocalsTyped, Enter, Alone, fixed, Idle, Ended

\* The memory of a request gets a new value.
LEMMA NewAggregate ==
  ASSUME TypeOK, NEW r \in Requests, NEW a \in Memory, agg' = [agg EXCEPT ![r] = a]
  PROVE  /\ agg' \in [Requests -> Memory] /\ agg'[r] = a
         /\ \A q \in Requests \ {r} : agg'[q] = agg[q]
BY DEF TypeOK, Memory

\* A request that is refused at once.
LEMMA AnsweredStep ==
  ASSUME AccountInv, NEW r \in Requests, pc[r] = "idle", Answered(r, "refused"),
         UNCHANGED <<address, inUse>>
  PROVE  AccountInv'
<1>1. TypeOK /\ pc[r] \notin Ended /\ pc[r] # "publish"
  BY DEF AccountInv, Ended
<1>2. /\ LocalsTyped' /\ Alone(r) /\ pc'[r] \in Ended
      /\ \A q \in Requests \ {r} : contested'[q] = contested[q]
      /\ UNCHANGED <<now, fixed, rows, process, address, inUse>>
  BY <1>1 DEF Answered, Clock, TypeOK, LocalsTyped, Memory, Alone, Idle, Ended, locals,
              fixed
<1>3. Handler(r)' /\ Current(r)'
  BY <1>2, EndedFacts
<1> QED BY <1>1, <1>2, <1>3, MemoryStep

LEMMA StartRegistrationStep ==
  ASSUME AccountInv, NEW r \in Requests, NEW c \in workload, StartRegistration(r, c),
         UNCHANGED <<address, inUse>>
  PROVE  AccountInv'
<1> DEFINE a == Register(r, c)
<1>1. /\ TypeOK /\ pc[r] = "idle" /\ c.kind = "register" /\ There = {}
      /\ Enter(r, c, "insert") /\ agg' = [agg EXCEPT ![r] = a] /\ Uncommitted(r)
      /\ UNCHANGED <<now, fixed, rows, process, address, inUse>>
  BY DEF AccountInv, StartRegistration, Begin, Unknown, Clock
<1>2. a \in IdentityAggregate /\ LockAgrees(a)
  <2>1. c.password \in Passwords /\ 0 \in 0 .. MaxCount /\ r \in Id
    BY <1>1, CommandFacts, TimeAssumption DEF Id
  <2>2. Plain(c.password) \in Secret
    BY <2>1 DEF Plain, Secret
  <2> QED BY <2>1, <2>2, TimeAssumption DEF Register, IdentityAggregate, LockAgrees
<1>3. /\ agg' \in [Requests -> Memory] /\ agg'[r] = a
      /\ \A q \in Requests \ {r} : agg'[q] = agg[q]
  BY <1>1, <1>2, NewAggregate DEF Memory
<1> HIDE DEF a
<1>4. /\ LocalsTyped' /\ Alone(r) /\ pc'[r] = "insert" /\ cmd'[r] = c
      /\ pc[r] \notin Ended /\ pc[r] # "publish"
      /\ \A q \in Requests \ {r} : contested'[q] = contested[q]
  BY <1>1, <1>3, EnterFacts DEF Places
<1>5. Handler(r)'
  BY <1>1, <1>2, <1>3, <1>4 DEF Handler, KindsAt, LockAgrees, OnAddress, fixed
<1>6. Current(r)'
  BY <1>1, <1>3, <1>4 DEF Current, There, Register, Plain, rows, a
<1> QED BY <1>1, <1>4, <1>5, <1>6, MemoryStep

LEMMA LoadForSignInStep ==
  ASSUME AccountInv, NEW r \in Requests, NEW c \in workload, LoadForSignIn(r, c),
         UNCHANGED <<address, inUse>>
  PROVE  AccountInv'
<1>1. PICK i \in There :
        ~Locked(identity[i]) /\ agg' = [agg EXCEPT ![r] = FromPersistence(i)]
  BY DEF LoadForSignIn
<1> DEFINE a == FromPersistence(i)
<1>2. /\ TypeOK /\ pc[r] = "idle" /\ c.kind = "signIn" /\ LockMatchesCount
      /\ Enter(r, c, "compare") /\ Uncommitted(r)
      /\ UNCHANGED <<now, fixed, rows, process, address, inUse>>
  BY DEF AccountInv, LoadForSignIn, Begin, Clock
<1>3. i \in Id /\ identity[i] \in IdentityRow /\ identity[i] # None
  BY <1>2 DEF There, TypeOK
<1>4. a \in IdentityAggregate /\ LockAgrees(a)
  BY <1>1, <1>2, <1>3
     DEF FromPersistence, IdentityAggregate, IdentityRow, LockAgrees, LockMatchesCount
<1>5. /\ a.id = i /\ a.password = identity[i].password
      /\ a.attempts = identity[i].attempts /\ a.lockedUntil = identity[i].lockedUntil
  BY DEF FromPersistence
<1>6. identity[i].lockedUntil \in {None} \cup 0 .. now
  BY <1>1, <1>2, <1>3, TimeAssumption DEF Locked, TypeOK, IdentityRow
<1>7. /\ agg' \in [Requests -> Memory] /\ agg'[r] = a
      /\ \A q \in Requests \ {r} : agg'[q] = agg[q]
  BY <1>1, <1>2, <1>4, NewAggregate DEF Memory
<1> HIDE DEF a
<1>8. /\ LocalsTyped' /\ Alone(r) /\ pc'[r] = "compare" /\ cmd'[r] = c
      /\ pc[r] \notin Ended /\ pc[r] # "publish"
      /\ \A q \in Requests \ {r} : contested'[q] = contested[q]
  BY <1>2, <1>7, EnterFacts DEF Places
<1>9. Handler(r)'
  BY <1>2, <1>3, <1>4, <1>5, <1>7, <1>8
     DEF Handler, KindsAt, LockAgrees, OnAddress, fixed, rows
<1>10. Current(r)'
  BY <1>2, <1>5, <1>6, <1>7, <1>8 DEF Current, SignInCurrent, rows
<1> QED BY <1>2, <1>8, <1>9, <1>10, MemoryStep

\* A token's check that passes reads nothing but the token.
LEMMA VerifyStep ==
  ASSUME AccountInv, NEW r \in Requests, NEW c \in workload,
         VerifyReset(r, c) \/ SignOut(r, c), UNCHANGED <<address, inUse>>
  PROVE  AccountInv'
<1>1. PICK p \in {"find", "revoke"} :
        /\ Enter(r, c, p) /\ c.kind = (IF p = "find" THEN "updatePassword" ELSE "signOut")
        /\ Verifies(c.token)
  BY DEF VerifyReset, SignOut, VerifiesReset
<1>2. /\ TypeOK /\ pc[r] = "idle" /\ Uncommitted(r)
      /\ UNCHANGED <<now, fixed, rows, process, agg, address, inUse>>
  BY DEF AccountInv, VerifyReset, SignOut, Begin, Clock
<1>3. agg' \in [Requests -> Memory]
  BY <1>2 DEF TypeOK, Memory
<1>4. /\ LocalsTyped' /\ Alone(r) /\ pc'[r] = p /\ cmd'[r] = c
      /\ pc[r] \notin Ended /\ pc[r] # "publish"
      /\ \A q \in Requests \ {r} : contested'[q] = contested[q]
  BY <1>1, <1>2, <1>3, EnterFacts DEF Places
<1>5. Handler(r)'
  BY <1>1, <1>2, <1>4 DEF Handler, KindsAt, OnAddress, fixed, process, Verifies
<1>6. Current(r)'
  BY <1>1, <1>4 DEF Current
<1> QED BY <1>2, <1>4, <1>5, <1>6, MemoryStep

LEMMA LoadTenantStep ==
  ASSUME AccountInv, NEW r \in Requests, NEW c \in workload, LoadTenant(r, c)
  PROVE  AccountInv'
<1>1. PICK i \in Id :
        profile[i] \in TenantRow /\ agg' = [agg EXCEPT ![r] = EditTenant(i, c)]
  BY DEF LoadTenant
<1> DEFINE a == EditTenant(i, c)
<1>2. /\ TypeOK /\ pc[r] = "idle" /\ c.kind = "updateTenant"
      /\ Enter(r, c, "writeTenant") /\ Uncommitted(r)
      /\ UNCHANGED <<now, fixed, rows, process, address, inUse>>
  BY DEF AccountInv, LoadTenant, Begin, Clock
<1>3. a \in TenantAggregate /\ a.tenant = i
  BY <1>1, <1>2, CommandFacts DEF EditTenant, TenantAggregate, TenantRow, Or
<1>4. /\ agg' \in [Requests -> Memory] /\ agg'[r] = a
      /\ \A q \in Requests \ {r} : agg'[q] = agg[q]
  BY <1>1, <1>2, <1>3, NewAggregate DEF Memory
<1> HIDE DEF a
<1>5. /\ LocalsTyped' /\ Alone(r) /\ pc'[r] = "writeTenant" /\ cmd'[r] = c
      /\ pc[r] \notin Ended /\ pc[r] # "publish"
      /\ \A q \in Requests \ {r} : contested'[q] = contested[q]
  BY <1>2, <1>4, EnterFacts DEF Places
<1>6. Handler(r)'
  BY <1>2, <1>3, <1>4, <1>5 DEF Handler, KindsAt, OnAddress, fixed
<1>7. Current(r)'
  BY <1>1, <1>2, <1>3, <1>4, <1>5 DEF Current, EditTenant, Or, rows, a
<1> QED BY <1>2, <1>5, <1>6, <1>7, MemoryStep

LEMMA CreateAddressStep ==
  ASSUME AccountInv, NEW r \in Requests, NEW c \in workload, CreateAddress(r, c)
  PROVE  AccountInv'
<1>1. PICK i \in Id :
        agg' = [agg EXCEPT ![r] = [id |-> r, owner |-> i, name |-> c.name, city |-> c.city]]
  BY DEF CreateAddress
<1> DEFINE a == [id |-> r, owner |-> i, name |-> c.name, city |-> c.city]
<1>2. /\ TypeOK /\ pc[r] = "idle" /\ c.kind = "createAddress"
      /\ Enter(r, c, "insertAddress") /\ Uncommitted(r)
      /\ UNCHANGED <<now, fixed, rows, process, address, inUse>>
  BY DEF AccountInv, CreateAddress, Begin, Clock
<1>3. a \in AddressAggregate
  BY <1>2, CommandFacts DEF AddressAggregate, AddressId
<1>4. /\ agg' \in [Requests -> Memory] /\ agg'[r] = a
      /\ \A q \in Requests \ {r} : agg'[q] = agg[q]
  BY <1>1, <1>2, <1>3, NewAggregate DEF Memory
<1>5. /\ LocalsTyped' /\ Alone(r) /\ pc'[r] = "insertAddress" /\ cmd'[r] = c
      /\ pc[r] \notin Ended /\ pc[r] # "publish"
      /\ \A q \in Requests \ {r} : contested'[q] = contested[q]
  BY <1>2, <1>4, EnterFacts DEF Places
<1>6. Handler(r)'
  BY <1>2, <1>3, <1>4, <1>5 DEF Handler, KindsAt, OnAddress, fixed
<1>7. Current(r)'
  BY <1>4, <1>5 DEF Current
<1> QED BY <1>2, <1>5, <1>6, <1>7, MemoryStep

\* An address that is loaded to be edited or deleted.
LEMMA LoadAddressStep ==
  ASSUME AccountInv, NEW r \in Requests, NEW c \in workload,
         LoadForUpdate(r, c) \/ LoadForDelete(r, c)
  PROVE  AccountInv'
<1>1. PICK p \in {"updateAddress", "deleteAddress"} :
        /\ c.kind = p
        /\ Load(r, c, p, IF p = "updateAddress"
                         THEN EditAddress(AddressOf(c.address), c)
                         ELSE AddressOf(c.address))
  BY DEF LoadForUpdate, LoadForDelete
<1> DEFINE a == IF p = "updateAddress" THEN EditAddress(AddressOf(c.address), c)
                ELSE AddressOf(c.address)
<1>2. /\ TypeOK /\ pc[r] = "idle" /\ address[c.address] # None
      /\ Enter(r, c, p) /\ Uncommitted(r) /\ agg' = [agg EXCEPT ![r] = a]
      /\ UNCHANGED <<now, fixed, rows, process, address, inUse>>
  BY <1>1 DEF AccountInv, LoadForUpdate, LoadForDelete, Load, Begin, Clock, FindById
<1>3. a \in AddressAggregate
  <2>1. c.address \in AddressId /\ address[c.address] \in AddressRow
    BY <1>1, <1>2, CommandFacts DEF TypeOK
  <2>2. AddressOf(c.address) \in AddressAggregate
    BY <2>1 DEF AddressOf, AddressRow, AddressAggregate
  <2>3. p = "updateAddress" =>
          c.name \in Names \cup {None} /\ c.city \in Cities \cup {None}
    BY <1>1, <1>2, CommandFacts
  <2> QED BY <2>2, <2>3 DEF EditAddress, Or, AddressAggregate
<1>4. /\ agg' \in [Requests -> Memory] /\ agg'[r] = a
      /\ \A q \in Requests \ {r} : agg'[q] = agg[q]
  BY <1>2, <1>3, NewAggregate DEF Memory
<1> HIDE DEF a
<1>5. /\ LocalsTyped' /\ Alone(r) /\ pc'[r] = p /\ cmd'[r] = c
      /\ pc[r] \notin Ended /\ pc[r] # "publish"
      /\ \A q \in Requests \ {r} : contested'[q] = contested[q]
  BY <1>1, <1>2, <1>4, EnterFacts DEF Places
<1>6. Handler(r)'
  BY <1>1, <1>2, <1>3, <1>4, <1>5 DEF Handler, KindsAt, OnAddress, fixed
<1>7. Current(r)'
  BY <1>1, <1>2, <1>4, <1>5 DEF Current, EditAddress, AddressOf, Or, a
<1> QED BY <1>2, <1>5, <1>6, <1>7, MemoryStep

\* The memory steps of a handler under way.
LEMMA MoveFacts ==
  ASSUME TypeOK, NEW r \in Requests, NEW p \in Places, pc[r] \in Places,
         NEW a \in Memory, pc' = [pc EXCEPT ![r] = p], agg' = [agg EXCEPT ![r] = a],
         UNCHANGED <<cmd, contested, fixed>>
  PROVE  /\ LocalsTyped' /\ Alone(r) /\ pc'[r] = p /\ agg'[r] = a
         /\ pc[r] \notin Ended
BY DEF TypeOK, LocalsTyped, Memory, Alone, fixed, Places, Ended

\* bcrypt.compare and what the aggregate makes of it.
LEMMA CompareStep ==
  ASSUME AccountInv, NEW r \in Requests, Compare(r), UNCHANGED <<address, inUse>>
  PROVE  AccountInv'
<1> DEFINE b == agg[r]
           a == IF Opens(cmd[r].password, b.password) THEN LoginSucceeded(b)
                ELSE LoginFailed(b)
<1>1. /\ TypeOK /\ Handler(r) /\ Current(r) /\ pc[r] = "compare"
      /\ pc' = [pc EXCEPT ![r] = "read"] /\ agg' = [agg EXCEPT ![r] = a]
      /\ UNCHANGED <<now, fixed, rows, process, cmd, contested, address, inUse>>
  BY DEF AccountInv, HandlerState, UncontestedIsCurrent, Compare, Clock, TypeOK
<1>2. /\ b \in IdentityAggregate /\ LockAgrees(b) /\ identity[b.id] # None
      /\ cmd[r] \in workload /\ cmd[r].kind = "signIn"
  BY <1>1 DEF Handler, KindsAt, Places
<1>3. now \in Nat /\ LockTime \in Nat /\ Threshold \in Nat \ {0} /\ MaxCount \in Nat
      /\ MaxCount > Threshold /\ \A n \in Nat : n # None
  BY <1>1, TimeAssumption, NamesAssumption DEF TypeOK
<1>4. /\ b.attempts \in 0 .. MaxCount /\ b.lockedUntil \in Nat \cup {None}
      /\ (b.lockedUntil # None) <=> (b.attempts >= Threshold)
  BY <1>2 DEF IdentityAggregate, LockAgrees
<1>5. CASE Opens(cmd[r].password, b.password)
  <2>1. /\ a \in IdentityAggregate /\ a.id = b.id /\ a.password = b.password
        /\ a.attempts = 0 /\ a.lockedUntil = None
    <3>1. 0 \in 0 .. MaxCount
      BY <1>3
    <3>2. a = [b EXCEPT !.attempts = 0, !.lockedUntil = None]
      BY <1>5 DEF LoginSucceeded
    <3> HIDE DEF a
    <3> QED BY <1>2, <3>1, <3>2 DEF IdentityAggregate
  <2>2. LockAgrees(a)
    BY <1>3, <2>1 DEF LockAgrees
  <2> HIDE DEF a, b
  <2>3. LocalsTyped' /\ Alone(r) /\ pc'[r] = "read" /\ agg'[r] = a /\ pc[r] \notin Ended
    BY <1>1, <2>1, MoveFacts DEF Memory, Places
  <2>4. Handler(r)'
    BY <1>1, <1>2, <2>1, <2>2, <2>3
       DEF Handler, KindsAt, OnAddress, fixed, rows, process, LockAgrees
  <2>5. Current(r)'
    BY <1>1, <1>2, <1>5, <2>1, <2>3
       DEF Current, SignInCurrent, Tried, Opens, rows, b
  <2> QED BY <1>1, <2>3, <2>4, <2>5, MemoryStep
<1>6. CASE ~Opens(cmd[r].password, b.password)
  <2> DEFINE n == IF b.attempts < MaxCount THEN b.attempts + 1 ELSE b.attempts
  <2>1. /\ a \in IdentityAggregate /\ a.id = b.id /\ a.password = b.password
        /\ a.attempts = n
        /\ a.lockedUntil = (IF n >= Threshold THEN now + LockTime ELSE b.lockedUntil)
    <3>1. n \in 0 .. MaxCount /\ now + LockTime \in Nat
      BY <1>3, <1>4
    <3> QED BY <1>2, <1>4, <1>6, <3>1 DEF LoginFailed, IdentityAggregate
  <2>2. IF n < Threshold THEN a.lockedUntil = None
        ELSE a.lockedUntil = now + LockTime
    BY <1>3, <1>4, <2>1
  <2>3. LockAgrees(a)
    BY <1>3, <1>4, <2>1, <2>2 DEF LockAgrees
  <2>4. /\ a.attempts = IF b.attempts < MaxCount THEN b.attempts + 1 ELSE MaxCount
        /\ IF a.attempts < Threshold THEN a.lockedUntil = None
           ELSE a.lockedUntil \in LockTime .. (now + LockTime)
    BY <1>3, <1>4, <2>1, <2>2
  <2> HIDE DEF a, b, n
  <2>5. LocalsTyped' /\ Alone(r) /\ pc'[r] = "read" /\ agg'[r] = a /\ pc[r] \notin Ended
    BY <1>1, <2>1, MoveFacts DEF Memory, Places
  <2>6. Handler(r)'
    BY <1>1, <1>2, <2>1, <2>3, <2>5
       DEF Handler, KindsAt, OnAddress, fixed, rows, process, LockAgrees
  <2>7. Current(r)'
    BY <1>1, <1>2, <1>6, <2>1, <2>4, <2>5
       DEF Current, SignInCurrent, Tried, Opens, rows, b
  <2> QED BY <1>1, <2>5, <2>6, <2>7, MemoryStep
<1> QED BY <1>5, <1>6

\* The read of the stored row, which tells whether the password is new.
LEMMA ReadStoredStep ==
  ASSUME AccountInv, NEW r \in Requests, ReadStored(r), UNCHANGED <<address, inUse>>
  PROVE  AccountInv'
<1> DEFINE b == agg[r]
           a == Rehashed(b, r)
<1>1. /\ TypeOK /\ Handler(r) /\ Current(r) /\ pc[r] = "read"
      /\ pc' = [pc EXCEPT ![r] = "write"] /\ agg' = [agg EXCEPT ![r] = a]
      /\ UNCHANGED <<now, fixed, rows, process, cmd, contested, address, inUse>>
  BY DEF AccountInv, HandlerState, UncontestedIsCurrent, ReadStored, Clock, TypeOK
<1>2. /\ b \in IdentityAggregate /\ LockAgrees(b) /\ identity[b.id] # None
      /\ cmd[r] \in workload /\ cmd[r].kind \in {"signIn", "updatePassword"}
      /\ cmd[r].kind = "updatePassword" =>
           issued[cmd[r].token] # None /\ b.id = issued[cmd[r].token].id
  BY <1>1 DEF Handler, KindsAt, Places
<1>3. /\ a \in IdentityAggregate /\ a.id = b.id /\ a.attempts = b.attempts
      /\ a.lockedUntil = b.lockedUntil
      /\ b.password = identity[b.id].password => a.password = b.password
      /\ b.password.salt = None => a.password.of = b.password.of
  <2>1. b.password \in Secret /\ r \in Id
    BY <1>2 DEF IdentityAggregate, Id
  <2>2. Hash(b.password, r) \in Secret
    BY <2>1 DEF Hash, Secret
  <2>3. b.password.salt = None => Hash(b.password, r).of = b.password.of
    BY DEF Hash
  <2> QED BY <1>2, <2>2, <2>3 DEF Rehashed, IdentityAggregate
<1>4. LockAgrees(a)
  BY <1>2, <1>3 DEF LockAgrees
<1> HIDE DEF a, b
<1>5. LocalsTyped' /\ Alone(r) /\ pc'[r] = "write" /\ agg'[r] = a /\ pc[r] \notin Ended
  BY <1>1, <1>3, MoveFacts DEF Memory, Places
<1>6. Handler(r)'
  BY <1>1, <1>2, <1>3, <1>4, <1>5
     DEF Handler, KindsAt, OnAddress, fixed, rows, process, LockAgrees
<1>7. Current(r)'
  <2>1. CASE cmd[r].kind = "signIn"
    <3>1. ~contested[r] => SignInCurrent(r)
      BY <1>1, <2>1 DEF Current
    <3>2. ~contested'[r] => SignInCurrent(r)'
      BY <1>1, <1>3, <1>5, <3>1 DEF SignInCurrent, Tried, rows, b
    <3> QED BY <1>1, <1>5, <2>1, <3>2 DEF Current
  <2>2. CASE cmd[r].kind = "updatePassword"
    <3>1. ~contested[r] => ResetCurrent(r)
      BY <1>1, <2>2 DEF Current
    <3>2. ~contested'[r] => ResetCurrent(r)'
      BY <1>1, <1>3, <1>5, <3>1 DEF ResetCurrent, rows, b
    <3> QED BY <1>1, <1>5, <2>2, <3>2 DEF Current
  <2> QED BY <1>2, <2>1, <2>2
<1> QED BY <1>1, <1>5, <1>6, <1>7, MemoryStep

\* The owner of a reset's token.
LEMMA FindOwnerStep ==
  ASSUME AccountInv, NEW r \in Requests, FindOwner(r), UNCHANGED <<address, inUse>>
  PROVE  AccountInv'
<1> DEFINE i == issued[cmd[r].token].id
           a == [FromPersistence(i) EXCEPT !.password = Plain(cmd[r].password)]
<1>1. /\ TypeOK /\ Handler(r) /\ pc[r] = "find" /\ LockMatchesCount /\ TokensHaveIdentities
      /\ pc' = [pc EXCEPT ![r] = "read"] /\ agg' = [agg EXCEPT ![r] = a]
      /\ UNCHANGED <<now, fixed, rows, process, cmd, contested, address, inUse>>
  BY DEF AccountInv, HandlerState, FindOwner, Clock, TypeOK
<1>2. /\ cmd[r] \in workload /\ cmd[r].kind = "updatePassword"
      /\ issued[cmd[r].token] # None
  BY <1>1 DEF Handler, KindsAt, Places
<1>3. cmd[r].token \in Token /\ cmd[r].password \in Passwords
  BY <1>1, <1>2, CommandFacts
<1>4. i \in Id /\ identity[i] \in IdentityRow /\ identity[i] # None
  BY <1>1, <1>2, <1>3 DEF TypeOK, TokenClaims, TokensHaveIdentities
<1>5. /\ a \in IdentityAggregate /\ a.id = i /\ a.password = Plain(cmd[r].password)
      /\ a.attempts = identity[i].attempts /\ a.lockedUntil = identity[i].lockedUntil
  BY <1>3, <1>4 DEF FromPersistence, IdentityAggregate, IdentityRow, Plain, Secret
<1>6. LockAgrees(a)
  BY <1>1, <1>4, <1>5 DEF LockAgrees, LockMatchesCount, There
<1> HIDE DEF a
<1>7. LocalsTyped' /\ Alone(r) /\ pc'[r] = "read" /\ agg'[r] = a /\ pc[r] \notin Ended
  BY <1>1, <1>5, MoveFacts DEF Memory, Places
<1>8. Handler(r)'
  BY <1>1, <1>2, <1>4, <1>5, <1>6, <1>7
     DEF Handler, KindsAt, OnAddress, fixed, rows, process, LockAgrees
<1>9. Current(r)'
  BY <1>1, <1>2, <1>5, <1>7
     DEF Current, SignInCurrent, ResetCurrent, Plain, rows
<1> QED BY <1>1, <1>7, <1>8, <1>9, MemoryStep

\* A step of r in its memory and the process's.
LEMMA ProcessStep ==
  ASSUME AccountInv, NEW r \in Requests, pc[r] # "publish", Alone(r),
         UNCHANGED <<now, fixed, rows, events, lost, address, inUse>>,
         LocalsTyped', Handler(r)', Fresh(r)', Current(r)',
         \A q \in Requests \ {r} : contested'[q] = contested[q],
         issued' \in [Token -> TokenClaims \cup {None}], blacklist' \subseteq Token,
         limiter' \in LimitEntry \cup {None}, LimitRespected', TokensHaveIdentities',
         \A t \in Token : issued[t] # None => issued'[t] = issued[t],
         \A q \in Requests \ {r} : issued'[q] = issued[q]
  PROVE  AccountInv'
<1> USE DEF rows
<1>1. TypeOK'
  <2>1. TablesTyped
    BY TypeParts DEF AccountInv
  <2>2. TablesTyped'
    BY <2>1 DEF TablesTyped, fixed
  <2>3. TypeOK' <=> LocalsTyped' /\ TablesTyped'
    BY DEF TypeOK, LocalsTyped, TablesTyped, Memory
  <2> QED BY <2>2, <2>3
<1>2. WarehousesHaveAddresses' /\ LockMatchesCount'
  BY DEF AccountInv, WarehousesHaveAddresses, LockMatchesCount, There
<1>3. TenantlessForReason'
  BY ReasonsSame
<1> QED BY <1>1, <1>2, <1>3, OneStep

\* A handler that ends without having written.
LEMMA LeaveStep ==
  ASSUME AccountInv, NEW r \in Requests, pc[r] \in Places, pc[r] # "publish",
         NEW o \in Ended, Leave(r, o), Uncommitted(r),
         UNCHANGED <<now, fixed, rows, process, address, inUse>>
  PROVE  AccountInv'
<1>1. TypeOK /\ pc[r] \notin Ended
  BY DEF AccountInv, Places, Ended
<1>2. Alone(r) /\ pc'[r] = o /\ LocalsTyped'
  BY <1>1, LeaveFacts, ContestedFacts
<1>3. Handler(r)' /\ Current(r)'
  BY <1>2, EndedFacts
<1>4. \A q \in Requests \ {r} : contested'[q] = contested[q]
  BY <1>1, ContestedFacts
<1> QED BY <1>1, <1>2, <1>3, <1>4, MemoryStep

LEMMA NoProfileStep ==
  ASSUME AccountInv, NEW r \in Requests, NoProfile(r), UNCHANGED <<address, inUse>>
  PROVE  AccountInv'
BY LeaveStep DEF NoProfile, Clock, Places, Ended

LEMMA WriteRefusedStep ==
  ASSUME AccountInv, NEW r \in Requests, WriteRefused(r)
  PROVE  AccountInv'
BY LeaveStep DEF WriteRefused, Clock, Places, Ended

\* A handler that ends and leaves something in the process.
LEMMA LeaveProcessStep ==
  ASSUME AccountInv, NEW r \in Requests, pc[r] \in Places, pc[r] # "publish",
         NEW o \in Ended, Leave(r, o), Uncommitted(r),
         UNCHANGED <<now, fixed, rows, events, lost, address, inUse>>,
         issued' \in [Token -> TokenClaims \cup {None}], blacklist' \subseteq Token,
         limiter' \in LimitEntry \cup {None}, LimitRespected', TokensHaveIdentities',
         \A t \in Token : issued[t] # None => issued'[t] = issued[t],
         \A q \in Requests \ {r} : issued'[q] = issued[q]
  PROVE  AccountInv'
<1>1. TypeOK
  BY DEF AccountInv
<1>2. Alone(r) /\ pc'[r] = o /\ LocalsTyped'
  BY <1>1, LeaveFacts, ContestedFacts
<1>3. Handler(r)' /\ Fresh(r)' /\ Current(r)'
  BY <1>2, EndedFacts
<1>4. \A q \in Requests \ {r} : contested'[q] = contested[q]
  BY <1>1, ContestedFacts
<1> QED BY <1>2, <1>3, <1>4, ProcessStep

\* A token signed by r for an identity that is there.
LEMMA IssueFacts ==
  ASSUME AccountInv, NEW r \in Requests, pc[r] \notin Ended,
         NEW p \in {"session", "reset"}, NEW i \in Id, identity[i] # None,
         NEW life \in Nat, Issue(r, p, i, life), UNCHANGED identity
  PROVE  /\ issued' \in [Token -> TokenClaims \cup {None}] /\ TokensHaveIdentities'
         /\ \A t \in Token : issued[t] # None => issued'[t] = issued[t]
         /\ \A q \in Requests \ {r} : issued'[q] = issued[q]
<1>1. TypeOK /\ issued[r] = None /\ TokensHaveIdentities /\ r \in Token /\ now \in Nat
  BY TimeAssumption DEF AccountInv, NothingFromTheFuture, Fresh, Token, TypeOK
<1> DEFINE claims == [purpose |-> p, id |-> i, expires |-> now + life]
<1>2. claims \in TokenClaims
  BY <1>1 DEF TokenClaims
<1>3. issued' = [issued EXCEPT ![r] = claims]
  BY DEF Issue
<1>4. claims.id = i
  OBVIOUS
<1> HIDE DEF claims
<1>5. issued \in [Token -> TokenClaims \cup {None}]
  BY <1>1 DEF TypeOK
<1> QED BY <1>1, <1>2, <1>3, <1>4, <1>5 DEF TokensHaveIdentities, Token

LEMMA FindProfileStep ==
  ASSUME AccountInv, NEW r \in Requests, FindProfile(r), UNCHANGED <<address, inUse>>
  PROVE  AccountInv'
<1>1. /\ TypeOK /\ Handler(r) /\ pc[r] = "profile" /\ LimitRespected
      /\ UNCHANGED <<now, fixed, rows, blacklist, limiter, events, lost>>
      /\ Leave(r, "ok") /\ Uncommitted(r)
      /\ Issue(r, "session", agg[r].id, SessionLife)
  BY DEF AccountInv, HandlerState, FindProfile, Clock
<1>2. agg[r].id \in Id /\ identity[agg[r].id] # None
  BY <1>1 DEF Handler, IdentityAggregate
<1>3. pc[r] \in Places /\ pc[r] # "publish" /\ pc[r] \notin Ended
  BY <1>1 DEF Places, Ended
<1>4. SessionLife \in Nat
  BY TimeAssumption
<1>5. /\ issued' \in [Token -> TokenClaims \cup {None}] /\ TokensHaveIdentities'
      /\ \A t \in Token : issued[t] # None => issued'[t] = issued[t]
      /\ \A q \in Requests \ {r} : issued'[q] = issued[q]
  BY <1>1, <1>2, <1>3, <1>4, IssueFacts DEF rows
<1>6. LimitRespected' /\ blacklist' \subseteq Token /\ limiter' \in LimitEntry \cup {None}
  BY <1>1 DEF LimitRespected, TypeOK
<1> QED BY <1>1, <1>3, <1>5, <1>6, LeaveProcessStep DEF Ended

LEMMA MailResetStep ==
  ASSUME AccountInv, NEW r \in Requests, MailReset(r), UNCHANGED <<address, inUse>>
  PROVE  AccountInv'
<1>1. /\ TypeOK /\ pc[r] = "lookUp" /\ LimitRespected /\ TokensHaveIdentities
      /\ UNCHANGED <<now, fixed, rows, blacklist, limiter, events, lost>>
      /\ Leave(r, "ok") /\ Uncommitted(r)
  BY DEF AccountInv, MailReset, Clock
<1>2. pc[r] \in Places /\ pc[r] # "publish" /\ pc[r] \notin Ended /\ ResetLife \in Nat
  BY <1>1, TimeAssumption DEF Places, Ended
<1>3. /\ issued' \in [Token -> TokenClaims \cup {None}] /\ TokensHaveIdentities'
      /\ \A t \in Token : issued[t] # None => issued'[t] = issued[t]
      /\ \A q \in Requests \ {r} : issued'[q] = issued[q]
  <2>1. CASE UNCHANGED issued
    BY <1>1, <2>1 DEF TypeOK, TokensHaveIdentities, rows
  <2>2. CASE \E i \in There : Issue(r, "reset", i, ResetLife)
    BY <1>1, <1>2, <2>2, IssueFacts DEF rows, There
  <2> QED BY <2>1, <2>2 DEF MailReset
<1>4. LimitRespected' /\ blacklist' \subseteq Token /\ limiter' \in LimitEntry \cup {None}
  BY <1>1 DEF LimitRespected, TypeOK
<1> QED BY <1>1, <1>2, <1>3, <1>4, LeaveProcessStep DEF Ended

\* A reset lifts the limit, and a token that was used is of no use again.
LEMMA ConcludeStep ==
  ASSUME AccountInv, NEW r \in Requests, Conclude(r) \/ Revoke(r),
         UNCHANGED <<address, inUse>>
  PROVE  AccountInv'
<1>1. /\ TypeOK /\ Handler(r) /\ pc[r] \in {"conclude", "revoke"}
      /\ LimitRespected /\ TokensHaveIdentities
      /\ UNCHANGED <<now, fixed, rows, issued, events, lost>>
      /\ blacklist' = blacklist \cup {cmd[r].token}
      /\ limiter' \in {limiter, None}
      /\ Leave(r, "ok") /\ Uncommitted(r)
  BY DEF AccountInv, HandlerState, Conclude, Revoke, Clock
<1>2. pc[r] \in Places /\ pc[r] # "publish" /\ pc[r] \notin Ended
  BY <1>1 DEF Places, Ended
<1>3. cmd[r].token \in Token
  BY <1>1, <1>2, CommandFacts DEF Handler, KindsAt
<1>4. LimitRespected' /\ blacklist' \subseteq Token /\ limiter' \in LimitEntry \cup {None}
  BY <1>1, <1>3 DEF LimitRespected, TypeOK
<1>5. issued' \in [Token -> TokenClaims \cup {None}] /\ TokensHaveIdentities'
  BY <1>1 DEF TypeOK, TokensHaveIdentities, rows
<1> QED BY <1>1, <1>2, <1>4, <1>5, LeaveProcessStep DEF Ended

\* The limiter checks and records at once.
LEMMA AskResetStep ==
  ASSUME AccountInv, NEW r \in Requests, NEW c \in workload, AskReset(r, c),
         UNCHANGED <<address, inUse>>
  PROVE  AccountInv'
<1>1. /\ TypeOK /\ pc[r] = "idle" /\ c.kind = "forgotPassword" /\ LimitRespected
      /\ TokensHaveIdentities /\ Fresh(r)
      /\ Enter(r, c, "lookUp") /\ Uncommitted(r) /\ ~IsRateLimited /\ RecordAttempt
      /\ UNCHANGED <<now, fixed, rows, issued, blacklist, events, lost, agg>>
  BY DEF AccountInv, NothingFromTheFuture, AskReset, Begin, Clock
<1>2. /\ LocalsTyped' /\ Alone(r) /\ pc'[r] = "lookUp" /\ cmd'[r] = c
      /\ pc[r] \notin Ended /\ pc[r] # "publish"
      /\ \A q \in Requests \ {r} : contested'[q] = contested[q]
  BY <1>1, EnterFacts DEF Places, TypeOK, Memory
<1>3. Handler(r)' /\ Current(r)' /\ Fresh(r)'
  BY <1>1, <1>2 DEF Handler, KindsAt, OnAddress, fixed, Current, Fresh
<1>4. limiter' \in LimitEntry \cup {None} /\ LimitRespected'
  <2>1. /\ limiter \in LimitEntry \cup {None} /\ now \in Nat /\ Window \in Nat
        /\ MaxAttempts \in Nat \ {0}
    BY <1>1, TimeAssumption DEF TypeOK
  <2>2. CASE limiter # None /\ now <= limiter.resetTime
    <3>1. limiter' = [limiter EXCEPT !.count = @ + 1] /\ limiter \in LimitEntry
      BY <1>1, <2>1, <2>2 DEF RecordAttempt
    <3>2. limiter.count \in 1 .. MaxAttempts /\ ~(limiter.count >= MaxAttempts)
      BY <1>1, <2>2 DEF LimitRespected, IsRateLimited
    <3>3. limiter.count + 1 \in 1 .. MaxAttempts /\ limiter.count + 1 \in Nat
      BY <2>1, <3>2
    <3> QED BY <3>1, <3>3 DEF LimitEntry, LimitRespected
  <2>3. CASE ~(limiter # None /\ now <= limiter.resetTime)
    <3>1. limiter' = [count |-> 1, resetTime |-> now + Window]
      BY <1>1, <2>3 DEF RecordAttempt
    <3> QED BY <2>1, <3>1 DEF LimitEntry, LimitRespected
  <2> QED BY <2>2, <2>3
<1>5. /\ issued' \in [Token -> TokenClaims \cup {None}] /\ TokensHaveIdentities'
      /\ blacklist' \subseteq Token
  BY <1>1 DEF TypeOK, TokensHaveIdentities, rows
<1> QED BY <1>1, <1>2, <1>3, <1>4, <1>5, ProcessStep

\* A step of r that writes rows, and overtakes whoever is working.
LEMMA CommitStep ==
  ASSUME AccountInv, NEW r \in Requests, Alone(r), Committed(r),
         UNCHANGED <<now, fixed, process, inUse>>, LocalsTyped',
         identity' \in [Id -> IdentityRow \cup {None}],
         profile' \in [Id -> TenantRow \cup {Customer, None}],
         address' \in [AddressId -> AddressRow \cup {None}],
         WarehousesHaveAddresses', LockMatchesCount', TenantlessForReason',
         Handler(r)', Fresh(r)', Current(r)',
         \A i \in Id : identity[i] # None => identity'[i] # None,
         \A q \in Requests \ {r} : address[q] = None => address'[q] = None
  PROVE  AccountInv'
<1> USE DEF process
<1>1. TypeOK /\ LimitRespected /\ TokensHaveIdentities
  BY DEF AccountInv
<1>2. TypeOK'
  <2>1. TablesTyped
    BY <1>1, TypeParts
  <2>2. TablesTyped'
    BY <2>1 DEF TablesTyped, fixed
  <2>3. TypeOK' <=> LocalsTyped' /\ TablesTyped'
    BY DEF TypeOK, LocalsTyped, TablesTyped, Memory
  <2> QED BY <2>2, <2>3
<1>3. \A q \in Requests \ {r} : contested'[q] \/ pc[q] \notin Places
  BY <1>1, ContestedFacts
<1>4. LimitRespected'
  BY <1>1 DEF LimitRespected
<1>5. TokensHaveIdentities'
  BY <1>1 DEF TokensHaveIdentities, TypeOK, TokenClaims
<1> QED BY <1>2, <1>3, <1>4, <1>5, OneStep

LEMMA InsertIdentityStep ==
  ASSUME AccountInv, NEW r \in Requests, InsertIdentity(r), UNCHANGED <<address, inUse>>
  PROVE  AccountInv'
<1> DEFINE row == [ToDto(agg[r]) EXCEPT !.password = Hash(@, r)]
<1>1. /\ TypeOK /\ Handler(r) /\ Fresh(r) /\ pc[r] = "insert"
      /\ WarehousesHaveAddresses /\ LockMatchesCount /\ TenantlessForReason
      /\ identity' = [identity EXCEPT ![r] = row]
      /\ pc' = [pc EXCEPT ![r] = "publish"] /\ Committed(r)
      /\ UNCHANGED <<now, fixed, profile, process, cmd, agg>>
  BY DEF AccountInv, HandlerState, NothingFromTheFuture, InsertIdentity, Clock
<1>2. /\ agg[r] \in IdentityAggregate /\ LockAgrees(agg[r]) /\ cmd[r] \in workload
      /\ cmd[r].kind = "register"
  BY <1>1 DEF Handler, KindsAt, Places
<1>3. /\ row \in IdentityRow /\ LockAgrees(row) /\ row # None
  <2>1. Hash(agg[r].password, r) \in Secret
    BY <1>2 DEF IdentityAggregate, Hash, Secret, Id
  <2>2. row = [password |-> Hash(agg[r].password, r), attempts |-> agg[r].attempts,
               lockedUntil |-> agg[r].lockedUntil]
    BY DEF ToDto
  <2> HIDE DEF row
  <2>3. row \in IdentityRow /\ LockAgrees(row)
    BY <1>2, <2>1, <2>2 DEF IdentityAggregate, IdentityRow, LockAgrees
  <2> QED BY <2>3, RowsAssumption
<1> HIDE DEF row
<1>4. r \in Id
  BY DEF Id
<1>5. /\ identity' \in [Id -> IdentityRow \cup {None}] /\ identity'[r] = row
      /\ \A i \in Id \ {r} : identity'[i] = identity[i]
  BY <1>1, <1>3, <1>4 DEF TypeOK
<1>6. /\ Alone(r) /\ pc'[r] = "publish" /\ cmd'[r] = cmd[r] /\ contested' \in [Requests -> BOOLEAN]
  BY <1>1, ContestedFacts DEF TypeOK, Alone
<1>7. LocalsTyped'
  BY <1>1, <1>6 DEF TypeOK, LocalsTyped, Memory, Places, fixed
<1>8. LockMatchesCount'
  BY <1>1, <1>3, <1>5 DEF LockMatchesCount, LockAgrees, There
<1>9. TenantlessForReason'
  BY <1>1, <1>5, <1>6 DEF TenantlessForReason, There, Alone, fixed, process
<1>10. Handler(r)' /\ Fresh(r)' /\ Current(r)'
  BY <1>1, <1>2, <1>6 DEF Handler, KindsAt, Fresh, Current, OnAddress, Ended, fixed, process
<1>11. WarehousesHaveAddresses'
  BY <1>1 DEF WarehousesHaveAddresses
<1> QED BY <1>1, <1>3, <1>5, <1>6, <1>7, <1>8, <1>9, <1>10, <1>11, CommitStep DEF TypeOK

\* The row an aggregate is written to.
LEMMA UpdateFacts ==
  ASSUME AccountInv, NEW r \in Requests, pc[r] = "write", Update(r)
  PROVE  /\ agg[r] \in IdentityAggregate /\ identity[agg[r].id] # None
         /\ identity' \in [Id -> IdentityRow \cup {None}]
         /\ identity'[agg[r].id] = ToDto(agg[r])
         /\ ToDto(agg[r]) # None
         /\ \A i \in Id \ {agg[r].id} : identity'[i] = identity[i]
         /\ LockMatchesCount' /\ There' = There
<1>1. TypeOK /\ Handler(r) /\ LockMatchesCount
  BY DEF AccountInv, HandlerState
<1>2. agg[r] \in IdentityAggregate /\ LockAgrees(agg[r]) /\ identity[agg[r].id] # None
  BY <1>1 DEF Handler
<1>3. ToDto(agg[r]) \in IdentityRow /\ LockAgrees(ToDto(agg[r]))
  BY <1>2 DEF ToDto, IdentityAggregate, IdentityRow, LockAgrees
<1>4. agg[r].id \in Id
  BY <1>2 DEF IdentityAggregate
<1>5. ToDto(agg[r]) # None
  BY <1>3, RowsAssumption
<1>6. /\ identity' \in [Id -> IdentityRow \cup {None}]
      /\ identity'[agg[r].id] = ToDto(agg[r])
      /\ \A i \in Id \ {agg[r].id} : identity'[i] = identity[i]
  BY <1>1, <1>3, <1>4 DEF Update, TypeOK
<1>7. There' = There
  BY <1>2, <1>4, <1>5, <1>6 DEF There
<1>8. LockMatchesCount'
  <2> SUFFICES ASSUME NEW i \in There PROVE LockAgrees(identity[i])'
    BY <1>7 DEF LockMatchesCount, LockAgrees
  <2>1. i \in Id /\ LockAgrees(identity[i])
    BY <1>1 DEF LockMatchesCount, LockAgrees, There
  <2>2. identity'[i] = identity[i] \/ identity'[i] = ToDto(agg[r])
    BY <1>6, <2>1
  <2> QED BY <1>3, <2>1, <2>2 DEF LockAgrees
<1> QED BY <1>2, <1>5, <1>6, <1>7, <1>8

\* A sign-in or a reset writes the whole row.
LEMMA UpdateStep ==
  ASSUME AccountInv, NEW r \in Requests, WriteFailure(r) \/ WriteSuccess(r) \/ WriteReset(r),
         UNCHANGED <<address, inUse>>
  PROVE  AccountInv'
<1>1. /\ TypeOK /\ Handler(r) /\ Fresh(r) /\ pc[r] = "write" /\ WarehousesHaveAddresses
      /\ Update(r) /\ Committed(r) /\ UNCHANGED <<now, fixed, profile, process>>
  BY DEF AccountInv, HandlerState, NothingFromTheFuture, WriteFailure, WriteSuccess,
         WriteReset, Update, Clock
<1>2. /\ agg[r] \in IdentityAggregate /\ LockAgrees(agg[r])
      /\ cmd[r] \in workload /\ identity[agg[r].id] # None
  BY <1>1 DEF Handler, Places
<1>3. /\ identity' \in [Id -> IdentityRow \cup {None}]
      /\ identity'[agg[r].id] = ToDto(agg[r]) /\ ToDto(agg[r]) # None
      /\ \A i \in Id \ {agg[r].id} : identity'[i] = identity[i]
      /\ LockMatchesCount' /\ There' = There
  BY <1>1, UpdateFacts
<1>4. contested' \in [Requests -> BOOLEAN]
  BY <1>1, ContestedFacts
<1>5. /\ Alone(r) /\ LocalsTyped' /\ Handler(r)' /\ Fresh(r)' /\ Current(r)'
  <2>1. CASE WriteFailure(r)
    <3>1. Leave(r, "refused")
      BY <2>1 DEF WriteFailure
    <3> QED BY <1>1, <1>4, <3>1, LeaveFacts, EndedFacts DEF Ended
  <2>2. ASSUME NEW p \in {"profile", "conclude"}, pc' = [pc EXCEPT ![r] = p],
               UNCHANGED <<cmd, agg>>, cmd[r].kind \in KindsAt(p)
        PROVE  Alone(r) /\ LocalsTyped' /\ Handler(r)' /\ Fresh(r)' /\ Current(r)'
    <3>1. Alone(r) /\ LocalsTyped' /\ pc'[r] = p /\ agg'[r] = agg[r] /\ cmd'[r] = cmd[r]
      BY <1>1, <1>4, <2>2 DEF Alone, TypeOK, LocalsTyped, Memory, Places, fixed
    <3>2. Handler(r)'
      BY <1>1, <1>2, <1>3, <2>2, <3>1 DEF Handler, KindsAt, OnAddress, fixed, LockAgrees
    <3>3. Fresh(r)'
      BY <1>1, <3>1 DEF Fresh, Ended, process
    <3>4. Current(r)'
      BY <3>1 DEF Current
    <3> QED BY <3>1, <3>2, <3>3, <3>4
  <2>3. CASE WriteSuccess(r)
    BY <2>2, <2>3 DEF WriteSuccess, KindsAt
  <2>4. CASE WriteReset(r)
    BY <2>2, <2>4 DEF WriteReset, KindsAt
  <2> QED BY <2>1, <2>3, <2>4
<1>6. \A i \in Id : identity[i] # None <=> identity'[i] # None
  BY <1>3 DEF There
<1>7. TenantlessForReason'
  BY <1>1, <1>5, <1>6, ReasonsSame DEF process
<1>8. WarehousesHaveAddresses'
  BY <1>1 DEF WarehousesHaveAddresses
<1> QED BY <1>1, <1>3, <1>4, <1>5, <1>6, <1>7, <1>8, CommitStep DEF TypeOK

LEMMA WriteTenantStep ==
  ASSUME AccountInv, NEW r \in Requests, WriteTenant(r)
  PROVE  AccountInv'
<1> DEFINE row == [ownerName |-> agg[r].ownerName,
                   domain |-> Or(agg[r].domain, profile[agg[r].tenant].domain)]
<1>1. /\ TypeOK /\ Handler(r) /\ pc[r] = "writeTenant" /\ WarehousesHaveAddresses
      /\ profile[agg[r].tenant] \in TenantRow
      /\ LockMatchesCount /\ TenantlessForReason
      /\ profile' = [profile EXCEPT ![agg[r].tenant] = row]
      /\ Committed(r) /\ Leave(r, "ok")
      /\ UNCHANGED <<now, fixed, identity, process, address, inUse>>
  BY DEF AccountInv, HandlerState, WriteTenant, Clock
<1>2. agg[r] \in TenantAggregate
  BY <1>1 DEF Handler
<1>3. row \in TenantRow /\ agg[r].tenant \in Id
  BY <1>1, <1>2 DEF TenantRow, TenantAggregate, Or
<1>4. row # None
  BY <1>3, DirectoryRowsAssumption
<1> HIDE DEF row
<1>5. /\ profile' \in [Id -> TenantRow \cup {Customer, None}]
      /\ \A i \in Id : profile'[i] = None => profile[i] = None
  BY <1>1, <1>3, <1>4 DEF TypeOK
<1>6. contested' \in [Requests -> BOOLEAN]
  BY <1>1, ContestedFacts
<1>7. Alone(r) /\ LocalsTyped' /\ pc'[r] \in Ended
  BY <1>1, <1>6, LeaveFacts DEF Ended
<1>8. Handler(r)' /\ Fresh(r)' /\ Current(r)'
  BY <1>7, EndedFacts
<1>9. TenantlessForReason'
  BY <1>1, <1>5, <1>7, ReasonsSame DEF process
<1>10. WarehousesHaveAddresses' /\ LockMatchesCount'
  BY <1>1 DEF WarehousesHaveAddresses, LockMatchesCount, There
<1> QED BY <1>1, <1>5, <1>6, <1>7, <1>8, <1>9, <1>10, CommitStep DEF TypeOK

\* An address is inserted, replaced or deleted.
LEMMA WriteAddressStep ==
  ASSUME AccountInv, NEW r \in Requests, pc[r] \in OnAddress,
         NEW row \in AddressRow \cup {None}, WriteAddressRow(r, row),
         row = None => agg[r].id \notin inUse,
         address[agg[r].id] = None => agg[r].id = r
  PROVE  AccountInv'
<1>1. /\ TypeOK /\ Handler(r) /\ WarehousesHaveAddresses
      /\ LockMatchesCount /\ TenantlessForReason
      /\ address' = [address EXCEPT ![agg[r].id] = row]
      /\ Committed(r) /\ Leave(r, "ok")
      /\ UNCHANGED <<now, fixed, identity, profile, process, inUse>>
  BY DEF AccountInv, HandlerState, WriteAddressRow, Clock, rows
<1>2. agg[r].id \in AddressId
  BY <1>1 DEF Handler, AddressAggregate
<1>3. None \notin AddressRow
  BY DirectoryRowsAssumption
<1>4. /\ address' \in [AddressId -> AddressRow \cup {None}]
      /\ \A q \in Requests \ {r} : address[q] = None => address'[q] = None
  BY <1>1, <1>2 DEF TypeOK, AddressId
<1>5. contested' \in [Requests -> BOOLEAN]
  BY <1>1, ContestedFacts
<1>6. Alone(r) /\ LocalsTyped' /\ pc'[r] \in Ended
  BY <1>1, <1>5, LeaveFacts DEF Ended
<1>7. Handler(r)' /\ Fresh(r)' /\ Current(r)'
  BY <1>6, EndedFacts
<1>8. pc[r] # "publish"
  BY DEF OnAddress
<1>9. TenantlessForReason'
  BY <1>1, <1>6, <1>8, ReasonsSame DEF process
<1>10. WarehousesHaveAddresses'
  BY <1>1, <1>2, <1>3 DEF WarehousesHaveAddresses, TypeOK
<1>11. LockMatchesCount'
  BY <1>1 DEF LockMatchesCount, There
<1> QED BY <1>1, <1>4, <1>5, <1>6, <1>7, <1>9, <1>10, <1>11, CommitStep DEF TypeOK

LEMMA AddressRowFacts ==
  ASSUME NEW a \in AddressAggregate
  PROVE  Row(a) \in AddressRow
BY DEF Row, AddressAggregate, AddressRow

LEMMA AddressSteps ==
  ASSUME AccountInv, NEW r \in Requests,
         InsertAddress(r) \/ UpdateAddress(r) \/ DeleteAddress(r)
  PROVE  AccountInv'
<1>1. Handler(r)
  BY DEF AccountInv, HandlerState
<1>2. CASE InsertAddress(r)
  <2>1. /\ pc[r] \in OnAddress /\ agg[r].id = r /\ Row(agg[r]) \in AddressRow
        /\ WriteAddressRow(r, Row(agg[r]))
    BY <1>1, <1>2, AddressRowFacts DEF InsertAddress, Handler, OnAddress
  <2> QED BY <2>1, WriteAddressStep, DirectoryRowsAssumption
<1>3. CASE UpdateAddress(r)
  <2>1. /\ pc[r] \in OnAddress /\ address[agg[r].id] # None /\ Row(agg[r]) \in AddressRow
        /\ WriteAddressRow(r, Row(agg[r]))
    BY <1>1, <1>3, AddressRowFacts DEF UpdateAddress, Handler, OnAddress, FindById
  <2> QED BY <2>1, WriteAddressStep, DirectoryRowsAssumption
<1>4. CASE DeleteAddress(r)
  <2>1. /\ pc[r] \in OnAddress /\ address[agg[r].id] # None /\ agg[r].id \notin inUse
        /\ WriteAddressRow(r, None)
    BY <1>1, <1>4 DEF DeleteAddress, Handler, OnAddress, FindById, Free
  <2> QED BY <2>1, WriteAddressStep
<1> QED BY <1>2, <1>3, <1>4

\* The event of a registration, which only a tenant's needs.
LEMMA PublishStep ==
  ASSUME AccountInv, NEW r \in Requests, Publish(r), UNCHANGED <<address, inUse>>
  PROVE  AccountInv'
<1>1. /\ TypeOK /\ pc[r] = "publish" /\ TenantlessForReason
      /\ events' = IF Onboards THEN events \cup {r} ELSE events
      /\ Leave(r, "ok") /\ Uncommitted(r)
      /\ UNCHANGED <<now, fixed, identity, profile, issued, blacklist, limiter, lost>>
  BY DEF AccountInv, Publish, Clock, rows
<1>2. /\ contested' \in [Requests -> BOOLEAN]
      /\ \A q \in Requests \ {r} : contested'[q] = contested[q]
  BY <1>1, ContestedFacts
<1>3. Alone(r) /\ LocalsTyped' /\ pc'[r] \in Ended
  BY <1>1, <1>2, LeaveFacts DEF Ended
<1>4. Handler(r)' /\ Fresh(r)' /\ Current(r)'
  BY <1>3, EndedFacts
<1>5. /\ events' \subseteq Id /\ events \subseteq events' /\ r \in Id
      /\ accountType = "TENANT" => r \in events'
  BY <1>1 DEF TypeOK, Id, Onboards
<1>6. TypeOK'
  <2>1. TablesTyped
    BY <1>1, TypeParts
  <2>2. TablesTyped'
    BY <1>1, <1>5, <2>1 DEF TablesTyped, fixed
  <2>3. TypeOK' <=> LocalsTyped' /\ TablesTyped'
    BY DEF TypeOK, LocalsTyped, TablesTyped, Memory
  <2> QED BY <1>3, <2>2, <2>3
<1>7. TenantlessForReason'
  <2> SUFFICES ASSUME accountType = "TENANT", NEW i \in There, profile[i] = None
               PROVE  i \in events' \cup lost \/ (i \in Requests /\ pc'[i] = "publish")
    BY <1>1 DEF TenantlessForReason, There, fixed
  <2>1. i \in events \cup lost \/ (i \in Requests /\ pc[i] = "publish")
    BY <1>1 DEF TenantlessForReason
  <2> QED BY <1>3, <1>5, <2>1 DEF Alone
<1>8. WarehousesHaveAddresses' /\ LockMatchesCount' /\ LimitRespected' /\ TokensHaveIdentities'
  BY <1>1, TablesSame
<1> QED BY <1>1, <1>2, <1>3, <1>4, <1>6, <1>7, <1>8, OneStep

\* A step of the surroundings leaves the handlers where they are.
LEMMA AroundStep ==
  ASSUME AccountInv, UNCHANGED <<fixed, identity, issued, pc, cmd, agg, contested, address>>,
         now' \in 0 .. MaxTime, now <= now', TablesTyped',
         \A i \in Id : profile[i] \in TenantRow => profile'[i] = profile[i],
         WarehousesHaveAddresses', LimitRespected', TenantlessForReason'
  PROVE  AccountInv'
<1>1. TypeOK /\ LockMatchesCount /\ TokensHaveIdentities /\ now' \in Nat
  BY TimeAssumption DEF AccountInv
<1>2. LocalsTyped
  BY <1>1, TypeParts
<1>3. LocalsTyped'
  BY <1>2 DEF LocalsTyped, fixed, Memory
<1>4. TypeOK'
  BY <1>3 DEF TypeOK, LocalsTyped, TablesTyped, Memory
<1>5. LockMatchesCount' /\ TokensHaveIdentities'
  BY <1>1 DEF LockMatchesCount, There, TokensHaveIdentities
<1>6. ASSUME NEW q \in Requests PROVE Handler(q)' /\ Fresh(q)' /\ Current(q)'
  BY <1>1, Others
<1> QED BY <1>4, <1>5, <1>6
        DEF AccountInv, HandlerState, NothingFromTheFuture, UncontestedIsCurrent

LEMMA CreateTenantStep ==
  ASSUME AccountInv, NEW i \in Id, CreateTenant(i)
  PROVE  AccountInv'
<1> DEFINE row == [ownerName |-> Local, domain |-> None]
<1>1. /\ TypeOK /\ WarehousesHaveAddresses /\ LimitRespected /\ TenantlessForReason
      /\ profile[i] = None /\ profile' = [profile EXCEPT ![i] = row]
      /\ events' = events \ {i}
      /\ UNCHANGED <<now, fixed, identity, issued, blacklist, limiter, lost, pc, cmd, agg,
                     contested, address, inUse>>
  BY DEF AccountInv, CreateTenant, Clock, locals
<1>2. row \in TenantRow /\ row # None
  BY DirectoryAssumption, DirectoryRowsAssumption DEF TenantRow
<1> HIDE DEF row
<1>3. /\ profile' \in [Id -> TenantRow \cup {Customer, None}] /\ profile'[i] = row
      /\ \A j \in Id \ {i} : profile'[j] = profile[j]
  BY <1>1, <1>2 DEF TypeOK
<1>4. TablesTyped'
  BY <1>1, <1>3 DEF TypeOK, TablesTyped, fixed
<1>5. \A j \in Id : profile[j] \in TenantRow => profile'[j] = profile[j]
  BY <1>1, <1>3, DirectoryRowsAssumption
<1>6. WarehousesHaveAddresses' /\ LimitRespected' /\ now' \in 0 .. MaxTime /\ now <= now'
  BY <1>1, TimeAssumption DEF WarehousesHaveAddresses, LimitRespected, TypeOK
<1>7. TenantlessForReason'
  BY <1>1, <1>2, <1>3 DEF TenantlessForReason, There, fixed
<1> QED BY <1>1, <1>4, <1>5, <1>6, <1>7, AroundStep

LEMMA LoseTenantStep ==
  ASSUME AccountInv, NEW i \in Id, LoseTenant(i)
  PROVE  AccountInv'
<1>1. /\ TypeOK /\ WarehousesHaveAddresses /\ LimitRespected /\ TenantlessForReason
      /\ events' = events \ {i} /\ lost' = lost \cup {i}
      /\ UNCHANGED <<now, fixed, identity, profile, issued, blacklist, limiter, pc, cmd,
                     agg, contested, address, inUse>>
  BY DEF AccountInv, LoseTenant, Clock, locals, rows
<1>2. TablesTyped'
  BY <1>1 DEF TypeOK, TablesTyped, fixed
<1>3. WarehousesHaveAddresses' /\ LimitRespected' /\ now' \in 0 .. MaxTime /\ now <= now'
  BY <1>1, TimeAssumption DEF WarehousesHaveAddresses, LimitRespected, TypeOK
<1>4. TenantlessForReason'
  BY <1>1 DEF TenantlessForReason, There, fixed
<1> QED BY <1>1, <1>2, <1>3, <1>4, AroundStep

LEMMA WarehouseSteps ==
  ASSUME AccountInv, NEW a \in AddressId, Settle(a) \/ Depart(a)
  PROVE  AccountInv'
<1>1. /\ TypeOK /\ WarehousesHaveAddresses /\ LimitRespected /\ TenantlessForReason
      /\ inUse' \subseteq inUse \cup {a} /\ (a \in inUse' => address[a] # None)
      /\ UNCHANGED <<now, fixed, identity, profile, issued, blacklist, limiter, events,
                     lost, pc, cmd, agg, contested, address>>
  BY DEF AccountInv, Settle, Depart, locals, rows, process
<1>2. TablesTyped'
  BY <1>1 DEF TypeOK, TablesTyped, fixed
<1>3. WarehousesHaveAddresses' /\ LimitRespected' /\ now' \in 0 .. MaxTime /\ now <= now'
  BY <1>1, TimeAssumption DEF WarehousesHaveAddresses, LimitRespected, TypeOK
<1>4. TenantlessForReason'
  BY <1>1 DEF TenantlessForReason, There, fixed
<1> QED BY <1>1, <1>2, <1>3, <1>4, AroundStep

LEMMA ClockSteps ==
  ASSUME AccountInv, Tick \/ Cleanup, UNCHANGED <<address, inUse>>
  PROVE  AccountInv'
<1>1. /\ TypeOK /\ WarehousesHaveAddresses /\ LimitRespected /\ TenantlessForReason
      /\ limiter' \in {limiter, None}
      /\ now' = now \/ (now < MaxTime /\ now' = now + 1)
      /\ UNCHANGED <<fixed, identity, profile, issued, blacklist, events,
                     lost, pc, cmd, agg, contested>>
  BY DEF AccountInv, Tick, Cleanup, Clock, locals, rows, process
<1>2. now' \in 0 .. MaxTime /\ now <= now'
  BY <1>1, TimeAssumption DEF TypeOK
<1>3. TablesTyped'
  BY <1>1, <1>2 DEF TypeOK, TablesTyped, fixed
<1>4. WarehousesHaveAddresses' /\ LimitRespected'
  BY <1>1 DEF WarehousesHaveAddresses, LimitRespected
<1>5. TenantlessForReason'
  BY <1>1 DEF TenantlessForReason, There, fixed
<1> QED BY <1>1, <1>2, <1>3, <1>4, <1>5, AroundStep

\* The process dies, and no handler survives it.
LEMMA RestartStep ==
  ASSUME AccountInv, Restart, UNCHANGED <<address, inUse>>
  PROVE  AccountInv'
<1>1. /\ AccountInv /\ TypeOK
      /\ blacklist' = {} /\ limiter' = None /\ events' = {}
      /\ lost' = lost \cup events \cup UNION {Unpublished(r) : r \in Requests}
      /\ pc' = [r \in Requests |-> IF Working(r) THEN "failed" ELSE pc[r]]
      /\ cmd' = [r \in Requests |-> None] /\ agg' = [r \in Requests |-> None]
      /\ contested' = [r \in Requests |-> FALSE]
      /\ UNCHANGED <<now, fixed, identity, profile, issued, address, inUse>>
  BY DEF AccountInv, Restart, Clock, rows
<1>2. \A q \in Requests : pc'[q] \in Idle /\ (pc'[q] = "idle" => pc[q] = "idle")
  BY <1>1 DEF Working, Idle, Ended
<1>3. LocalsTyped'
  BY <1>1, <1>2 DEF LocalsTyped, Memory
<1>4. lost' \subseteq Id
  BY <1>1 DEF TypeOK, Unpublished, Id
<1>5. TablesTyped'
  BY <1>1, <1>4 DEF TypeOK, TablesTyped, fixed
<1>6. TypeOK'
  BY <1>3, <1>5 DEF TypeOK, LocalsTyped, TablesTyped, Memory
<1>7. \A q \in Requests : Handler(q)' /\ Fresh(q)' /\ Current(q)'
  BY <1>1, <1>2
     DEF AccountInv, NothingFromTheFuture, Handler, Fresh, Current, Idle, Ended, Places,
         OnAddress
<1>8. TenantlessForReason'
  <2> SUFFICES ASSUME accountType = "TENANT", NEW i \in There, profile[i] = None
               PROVE  i \in lost'
    BY <1>1 DEF TenantlessForReason, There, fixed
  <2>1. i \in events \cup lost \/ (i \in Requests /\ pc[i] = "publish")
    BY <1>1 DEF AccountInv, TenantlessForReason
  <2>2. i \in Requests /\ pc[i] = "publish" => i \in Unpublished(i)
    BY DEF Unpublished, Onboards
  <2> QED BY <1>1, <2>1, <2>2
<1>9. WarehousesHaveAddresses' /\ LockMatchesCount' /\ LimitRespected' /\ TokensHaveIdentities'
  BY <1>1 DEF AccountInv, WarehousesHaveAddresses, LockMatchesCount, LimitRespected,
              TokensHaveIdentities, There
<1> QED BY <1>6, <1>7, <1>8, <1>9
        DEF AccountInv, HandlerState, NothingFromTheFuture, UncontestedIsCurrent

\* A handler fails where it is.
LEMMA AbortStep ==
  ASSUME AccountInv, NEW r \in Requests, Abort(r), UNCHANGED <<address, inUse>>
  PROVE  AccountInv'
<1>1. /\ TypeOK /\ TenantlessForReason /\ Leave(r, "failed") /\ Uncommitted(r)
      /\ lost' = lost \cup Unpublished(r)
      /\ UNCHANGED <<now, fixed, identity, profile, issued, blacklist, limiter, events>>
  BY DEF AccountInv, Abort, Clock, rows
<1>2. /\ contested' \in [Requests -> BOOLEAN]
      /\ \A q \in Requests \ {r} : contested'[q] = contested[q]
  BY <1>1, ContestedFacts
<1>3. Alone(r) /\ LocalsTyped' /\ pc'[r] \in Ended
  BY <1>1, <1>2, LeaveFacts DEF Ended
<1>4. Handler(r)' /\ Fresh(r)' /\ Current(r)'
  BY <1>3, EndedFacts
<1>5. lost' \subseteq Id
  BY <1>1 DEF TypeOK, Unpublished, Id
<1>6. TypeOK'
  <2>1. TablesTyped'
    BY <1>1, <1>5 DEF TypeOK, TablesTyped, fixed
  <2> QED BY <1>3, <2>1 DEF TypeOK, LocalsTyped, TablesTyped, Memory
<1>7. TenantlessForReason'
  <2> SUFFICES ASSUME accountType = "TENANT", NEW i \in There, profile[i] = None
               PROVE  i \in events \cup lost' \/ (i \in Requests /\ pc'[i] = "publish")
    BY <1>1 DEF TenantlessForReason, There, fixed
  <2>1. i \in events \cup lost \/ (i \in Requests /\ pc[i] = "publish")
    BY <1>1 DEF TenantlessForReason
  <2>2. pc[r] = "publish" => r \in Unpublished(r)
    BY DEF Unpublished, Onboards
  <2> QED BY <1>1, <1>3, <2>1, <2>2 DEF Alone
<1>8. WarehousesHaveAddresses' /\ LockMatchesCount' /\ LimitRespected' /\ TokensHaveIdentities'
  BY <1>1, TablesSame
<1> QED BY <1>1, <1>2, <1>3, <1>4, <1>6, <1>7, <1>8, OneStep

LEMMA StutterStep ==
  ASSUME AccountInv, UNCHANGED vars
  PROVE  AccountInv'
<1>1. /\ TypeOK /\ WarehousesHaveAddresses /\ LimitRespected /\ TenantlessForReason
      /\ UNCHANGED <<now, fixed, identity, profile, issued, blacklist, limiter, events,
                     lost, pc, cmd, agg, contested, address, inUse>>
  BY DEF AccountInv, vars, identityVars, locals, rows, process
<1>2. TablesTyped'
  BY <1>1 DEF TypeOK, TablesTyped, fixed
<1>3. WarehousesHaveAddresses' /\ LimitRespected' /\ now' \in 0 .. MaxTime /\ now <= now'
  BY <1>1, TimeAssumption DEF WarehousesHaveAddresses, LimitRespected, TypeOK
<1>4. TenantlessForReason'
  BY <1>1 DEF TenantlessForReason, There, fixed
<1> QED BY <1>1, <1>2, <1>3, <1>4, AroundStep

\* What the program may start with.
LEMMA InitTables ==
  ASSUME Init
  PROVE  /\ TablesTyped /\ LockMatchesCount /\ TokensHaveIdentities
         /\ \A r \in Requests : issued[r] = None /\ address[r] = None
         /\ accountType = "TENANT" => \A i \in There : profile[i] # None
<1>1. /\ now = 0 /\ accountType \in {"TENANT", "CUSTOMER"} /\ workload \in Workloads
      /\ blacklist = {} /\ events = {} /\ lost = {} /\ inUse = {}
      /\ limiter \in {None, [count |-> 1, resetTime |-> Window]}
      /\ InitIds \cap Requests = {} /\ InitTokens \cap Requests = {}
      /\ InitAddresses \cap Requests = {}
  BY NamesAssumption, DirectoryAssumption DEF Init
<1>2. 0 \in 0 .. MaxTime /\ [count |-> 1, resetTime |-> Window] \in LimitEntry
  BY TimeAssumption DEF LimitEntry
<1>3. CASE NothingThere
  <2>1. /\ identity \in [Id -> IdentityRow \cup {None}]
        /\ profile \in [Id -> TenantRow \cup {Customer, None}]
        /\ issued \in [Token -> TokenClaims \cup {None}]
        /\ address \in [AddressId -> AddressRow \cup {None}]
        /\ There = {} /\ \A t \in Token : issued[t] = None
        /\ \A r \in Requests : address[r] = None
    BY <1>3 DEF NothingThere, There, AddressId
  <2>2. TablesTyped
    BY <1>1, <1>2, <2>1 DEF TablesTyped
  <2> QED BY <2>1, <2>2 DEF LockMatchesCount, TokensHaveIdentities, Token
<1>4. ASSUME NEW i \in InitIds, OneThere(i)
      PROVE  /\ TablesTyped /\ LockMatchesCount /\ TokensHaveIdentities
             /\ \A r \in Requests : issued[r] = None /\ address[r] = None
             /\ accountType = "TENANT" => \A j \in There : profile[j] # None
  <2>1. PICK row \in InitIdentity(i) :
          identity = [j \in Id |-> IF j = i THEN row ELSE None]
    BY <1>4 DEF OneThere
  <2>2. PICK tenant \in InitProfile :
          profile = [j \in Id |-> IF j = i THEN tenant ELSE None]
    BY <1>4 DEF OneThere
  <2>3. /\ issued = [t \in Token |-> IF t \in InitTokens THEN InitClaims(i) ELSE None]
        /\ address = [a \in AddressId |->
                        IF a \in InitAddresses THEN InitAddress(i) ELSE None]
    BY <1>4 DEF OneThere
  <2>4. /\ Threshold \in Nat \ {0} /\ MaxCount \in Nat /\ MaxCount > Threshold
        /\ LockTime \in Nat /\ ResetLife \in Nat /\ SessionLife \in Nat
        /\ \A n \in Nat : n # None /\ i \in Id
    BY TimeAssumption, NamesAssumption DEF Id
  <2>5. row \in IdentityRow /\ LockAgrees(row)
    <3>1. /\ row \in [password : {[of |-> p, salt |-> i] : p \in Passwords},
                      attempts : IF Sends({"signIn"}) THEN 0 .. Threshold ELSE {0},
                      lockedUntil : {None, 0, LockTime}]
          /\ row.attempts >= Threshold <=> row.lockedUntil # None
      BY <2>1 DEF InitIdentity
    <3>2. \A p \in Passwords : [of |-> p, salt |-> i] \in Secret
      BY <2>4 DEF Secret
    <3>3. 0 .. Threshold \subseteq 0 .. MaxCount /\ 0 \in 0 .. MaxCount /\ 0 \in Nat
      BY <2>4
    <3>4. row.password \in Secret /\ row.attempts \in 0 .. MaxCount
      BY <3>1, <3>2, <3>3
    <3> QED BY <2>4, <3>1, <3>3, <3>4 DEF IdentityRow, LockAgrees
  <2>6. /\ tenant \in TenantRow \cup {Customer, None}
        /\ accountType = "TENANT" => tenant # None
    BY <2>2, DirectoryAssumption, DirectoryRowsAssumption DEF InitProfile, TenantRow
  <2>7. /\ InitClaims(i) \in TokenClaims /\ InitClaims(i).id = i
    BY <2>4 DEF InitClaims, TokenClaims
  <2>8. InitAddress(i) \in AddressRow \cup {None}
    BY <2>4, DirectoryAssumption DEF InitAddress, AddressRow
  <2>9. There = {i} /\ identity[i] = row
    BY <2>1, <2>4, <2>5, RowsAssumption DEF There
  <2>10. TablesTyped
    <3>1. /\ identity \in [Id -> IdentityRow \cup {None}]
          /\ profile \in [Id -> TenantRow \cup {Customer, None}]
      BY <2>1, <2>2, <2>5, <2>6
    <3>2. /\ issued \in [Token -> TokenClaims \cup {None}]
          /\ address \in [AddressId -> AddressRow \cup {None}]
      BY <2>3, <2>7, <2>8
    <3> QED BY <1>1, <1>2, <3>1, <3>2 DEF TablesTyped
  <2>11. TokensHaveIdentities
    BY <2>3, <2>7, <2>9, <2>5, RowsAssumption DEF TokensHaveIdentities
  <2>12. LockMatchesCount
    BY <2>9, <2>5 DEF LockMatchesCount, LockAgrees
  <2>13. \A r \in Requests : issued[r] = None /\ address[r] = None
    BY <1>1, <2>3 DEF Token, AddressId
  <2> QED BY <2>2, <2>4, <2>6, <2>9, <2>10, <2>11, <2>12, <2>13
<1> QED BY <1>3, <1>4 DEF Init

LEMMA InitAccountInv ==
  ASSUME Init
  PROVE  AccountInv
<1>1. /\ TablesTyped /\ LockMatchesCount /\ TokensHaveIdentities
      /\ \A r \in Requests : issued[r] = None /\ address[r] = None
      /\ accountType = "TENANT" => \A i \in There : profile[i] # None
  BY InitTables
<1>2. /\ pc = [r \in Requests |-> "idle"]
      /\ cmd = [r \in Requests |-> None] /\ agg = [r \in Requests |-> None]
      /\ contested = [r \in Requests |-> FALSE] /\ inUse = {}
      /\ limiter \in {None, [count |-> 1, resetTime |-> Window]}
  BY DEF Init
<1>3. TypeOK
  <2>1. LocalsTyped
    BY <1>2 DEF LocalsTyped, Memory, Idle
  <2> QED BY <1>1, <2>1, TypeParts
<1>4. HandlerState /\ NothingFromTheFuture /\ UncontestedIsCurrent
  BY <1>1, <1>2 DEF HandlerState, NothingFromTheFuture, UncontestedIsCurrent, Handler,
                    Fresh, Current, Places, OnAddress
<1>5. WarehousesHaveAddresses /\ TenantlessForReason
  BY <1>1, <1>2 DEF WarehousesHaveAddresses, TenantlessForReason
<1>6. LimitRespected
  BY <1>2, TimeAssumption DEF LimitRespected
<1> QED BY <1>1, <1>3, <1>4, <1>5, <1>6 DEF AccountInv

LEMMA NextAccountInv ==
  ASSUME AccountInv, [Next]_vars
  PROVE  AccountInv'
<1>1. CASE UNCHANGED vars
  BY <1>1, StutterStep
<1>2. ASSUME NEW r \in Requests, Start(r) PROVE AccountInv'
  <2>1. CASE StartIdentity(r) /\ UNCHANGED <<address, inUse>>
    <3>1. PICK c \in workload :
            \/ StartRegistration(r, c) \/ RefuseRegistration(r, c)
            \/ LoadForSignIn(r, c) \/ RefuseSignIn(r, c)
            \/ AskReset(r, c) \/ RefuseReset(r, c)
            \/ VerifyReset(r, c) \/ SignOut(r, c) \/ RefuseToken(r, c)
      BY <2>1 DEF StartIdentity
    <3>2. CASE \/ RefuseRegistration(r, c) \/ RefuseSignIn(r, c)
               \/ RefuseReset(r, c) \/ RefuseToken(r, c)
      <4>1. Answered(r, "refused") /\ pc[r] = "idle"
        BY <3>2 DEF RefuseRegistration, RefuseSignIn, RefuseReset, RefuseToken, Begin
      <4> QED BY <2>1, <4>1, AnsweredStep
    <3> QED BY <2>1, <3>1, <3>2, StartRegistrationStep, LoadForSignInStep, AskResetStep,
               VerifyStep
  <2>2. CASE \E c \in workload : RefuseEdit(r, c)
    <3>1. Answered(r, "refused") /\ pc[r] = "idle" /\ UNCHANGED <<address, inUse>>
      BY <2>2 DEF RefuseEdit, Begin
    <3> QED BY <3>1, AnsweredStep
  <2>3. CASE \E c \in workload :
               \/ LoadTenant(r, c) \/ CreateAddress(r, c)
               \/ LoadForUpdate(r, c) \/ LoadForDelete(r, c)
    BY <2>3, LoadTenantStep, CreateAddressStep, LoadAddressStep
  <2> QED BY <1>2, <2>1, <2>2, <2>3 DEF Start
<1>3. ASSUME NEW r \in Requests, Step(r) PROVE AccountInv'
  <2>1. CASE StepIdentity(r) /\ UNCHANGED <<address, inUse>>
    BY <2>1, InsertIdentityStep, PublishStep, CompareStep, ReadStoredStep, UpdateStep,
       FindProfileStep, NoProfileStep, MailResetStep, FindOwnerStep, ConcludeStep
       DEF StepIdentity
  <2>2. CASE WriteTenant(r) \/ WriteRefused(r)
    BY <2>2, WriteTenantStep, WriteRefusedStep
  <2>3. CASE InsertAddress(r) \/ UpdateAddress(r) \/ DeleteAddress(r)
    BY <2>3, AddressSteps
  <2> QED BY <1>3, <2>1, <2>2, <2>3 DEF Step
<1>4. CASE \E i \in Id : CreateTenant(i) \/ LoseTenant(i)
  BY <1>4, CreateTenantStep, LoseTenantStep
<1>5. CASE \E a \in AddressId : Settle(a) \/ Depart(a)
  BY <1>5, WarehouseSteps
<1>6. CASE CleanUp \/ Environment
  BY <1>6, ClockSteps, RestartStep, AbortStep DEF CleanUp, Environment
<1>7. CASE Served
  BY <1>7, StutterStep DEF Served
<1> QED BY <1>1, <1>2, <1>3, <1>4, <1>5, <1>6, <1>7 DEF Next

-----------------------------------------------------------------------------
\* Whatever overlaps, fails or restarts, the rows of accounts, what handlers hold
\* of them and what the process remembers keep to AccountInv.
THEOREM InductiveInvariant == Spec => []AccountInv
<1>1. Init => AccountInv
  BY InitAccountInv
<1>2. AccountInv /\ [Next]_vars => AccountInv'
  BY NextAccountInv
<1> QED BY <1>1, <1>2, PTL DEF Spec

\* Overlapping sign-ins and resets write whole rows from stale copies, and the
\* lock of an identity agrees with its count all the same.
THEOREM LockMatchesCountAlways == Spec => []LockMatchesCount
<1>1. AccountInv => LockMatchesCount
  BY DEF AccountInv
<1> QED BY <1>1, InductiveInvariant, PTL

\* However many requests for a reset overlap, no more are recorded than the limit.
THEOREM LimitRespectedAlways == Spec => []LimitRespected
<1>1. AccountInv => LimitRespected
  BY DEF AccountInv
<1> QED BY <1>1, InductiveInvariant, PTL

\* A tenant's identity without a tenant is being registered, has its event under
\* way, or lost it.
THEOREM TenantlessForReasonAlways == Spec => []TenantlessForReason
<1>1. AccountInv => TenantlessForReason
  BY DEF AccountInv
<1> QED BY <1>1, InductiveInvariant, PTL

-----------------------------------------------------------------------------
\* Who commits, and what they promised.

LEMMA Committing ==
  ASSUME TypeOK, NEW r \in Requests, [Next]_vars, Commits(r)
  PROVE  \/ (InsertIdentity(r) \/ WriteFailure(r) \/ WriteSuccess(r) \/ WriteReset(r))
              /\ UNCHANGED <<address, inUse>>
         \/ WriteTenant(r) \/ InsertAddress(r) \/ UpdateAddress(r) \/ DeleteAddress(r)
<1>1. /\ pc[r] \in {"insert", "write", "writeTenant", "insertAddress", "updateAddress",
                    "deleteAddress"}
      /\ pc'[r] \in {"publish", "profile", "conclude", "refused", "ok"}
      /\ pc'[r] = "refused" => pc[r] = "write"
      /\ pc \in [Requests -> Places \cup Idle]
  BY DEF Commits, TypeOK
<1>2. ASSUME pc' = pc PROVE FALSE
  BY <1>1, <1>2
<1>3. ASSUME NEW q \in Requests, NEW o, pc' = [pc EXCEPT ![q] = o], q # r
      PROVE  FALSE
  BY <1>1, <1>3
<1>4. ASSUME NEW q \in Requests, Start(q) PROVE FALSE
  <2>1. pc[q] = "idle" /\ \E o : pc' = [pc EXCEPT ![q] = o]
    BY <1>4 DEF Start, StartIdentity, StartRegistration, RefuseRegistration, LoadForSignIn,
       RefuseSignIn, AskReset, RefuseReset, VerifyReset, SignOut, RefuseToken, LoadTenant,
       CreateAddress, LoadForUpdate, LoadForDelete, RefuseEdit, Answered, Begin, Enter, Load
  <2> QED BY <1>1, <1>3, <2>1
<1>5. ASSUME NEW q \in Requests, Step(q), q # r PROVE FALSE
  <2>1. \E o : pc' = [pc EXCEPT ![q] = o]
    BY <1>5 DEF Step, StepIdentity, InsertIdentity, Publish, Compare, ReadStored,
       WriteFailure, WriteSuccess, FindProfile, NoProfile, MailReset, FindOwner, WriteReset,
       Conclude, Revoke, WriteTenant, InsertAddress, UpdateAddress, DeleteAddress,
       WriteRefused, Leave, WriteAddressRow
  <2> QED BY <1>3, <1>5, <2>1
<1>6. ASSUME Step(r), WriteRefused(r) PROVE FALSE
  BY <1>1, <1>6 DEF WriteRefused, Leave
<1>7. ASSUME Compare(r) \/ ReadStored(r) \/ Publish(r) \/ FindProfile(r) \/ NoProfile(r)
             \/ MailReset(r) \/ FindOwner(r) \/ Conclude(r) \/ Revoke(r)
      PROVE FALSE
  BY <1>1, <1>7 DEF Compare, ReadStored, Publish, FindProfile, NoProfile, MailReset,
                    FindOwner, Conclude, Revoke
<1>8. ASSUME Environment PROVE FALSE
  <2>1. CASE Restart
    BY <1>1, <2>1 DEF Restart, Working, Idle, Ended
  <2>2. CASE Tick
    BY <1>2, <2>2 DEF Tick
  <2>3. ASSUME NEW q \in Requests, Abort(q) PROVE FALSE
    <3>1. pc' = [pc EXCEPT ![q] = "failed"]
      BY <2>3 DEF Abort, Leave
    <3> QED BY <1>1, <1>3, <3>1
  <2> QED BY <1>8, <2>1, <2>2, <2>3 DEF Environment
<1>9. ASSUME \/ \E i \in Id : CreateTenant(i) \/ LoseTenant(i)
             \/ \E a \in AddressId : Settle(a) \/ Depart(a)
             \/ CleanUp \/ Served \/ UNCHANGED vars
      PROVE  FALSE
  BY <1>2, <1>9 DEF CreateTenant, LoseTenant, Settle, Depart, CleanUp, Cleanup, Served, vars,
                    identityVars
<1>10. Step(r)
  BY <1>4, <1>5, <1>8, <1>9 DEF Next
<1> QED BY <1>6, <1>7, <1>10 DEF Step, StepIdentity

\* A registration that nobody overtook makes the only identity there is.
LEMMA InsertsAsPromised ==
  ASSUME AccountInv, NEW r \in Requests, ~contested[r], InsertIdentity(r),
         UNCHANGED <<address, inUse>>
  PROVE  Policy!Does(cmd[r], Owner(cmd[r]))
<1> DEFINE row == [ToDto(agg[r]) EXCEPT !.password = Hash(@, r)]
<1>1. /\ TypeOK /\ Handler(r) /\ Current(r) /\ pc[r] = "insert" /\ r \in Id
      /\ identity' = [identity EXCEPT ![r] = row] /\ UNCHANGED <<profile, address>>
  BY DEF AccountInv, HandlerState, UncontestedIsCurrent, InsertIdentity, Id
<1>2. cmd[r].kind = "register" /\ There = {} /\ agg[r] = Register(r, cmd[r])
  BY <1>1 DEF Handler, KindsAt, Places, Current
<1>3. row.password.of = cmd[r].password /\ row.attempts = 0 /\ row.lockedUntil = None
  BY <1>2 DEF ToDto, Hash, Register, Plain
<1> HIDE DEF row
<1>4. identity'[r] = row /\ \A j \in Id : identity[j] = None
  BY <1>1, <1>2 DEF TypeOK, There
<1>5. Policy!Touches(r)
  BY <1>1 DEF Policy!Touches, Policy!Only, TypeOK
<1>6. Policy!Registers(cmd[r].password)
  BY <1>1, <1>3, <1>4, <1>5 DEF Policy!Registers
<1> QED BY <1>2, <1>6 DEF Policy!Does

\* The row that a sign-in or a reset writes.
LEMMA UpdateTouches ==
  ASSUME AccountInv, NEW r \in Requests, pc[r] = "write", Update(r), UNCHANGED address
  PROVE  /\ agg[r].id \in Id /\ identity[agg[r].id] # None
         /\ Policy!Touches(agg[r].id)
         /\ identity'[agg[r].id] = ToDto(agg[r])
         /\ identity[agg[r].id] \in IdentityRow
<1>1. /\ agg[r] \in IdentityAggregate /\ identity[agg[r].id] # None
      /\ identity'[agg[r].id] = ToDto(agg[r])
      /\ \A i \in Id \ {agg[r].id} : identity'[i] = identity[i]
  BY UpdateFacts
<1>2. agg[r].id \in Id /\ DOMAIN identity = Id /\ identity[agg[r].id] \in IdentityRow
  BY <1>1 DEF AccountInv, TypeOK, IdentityAggregate
<1> QED BY <1>1, <1>2 DEF Policy!Touches, Policy!Only, Update

LEMMA SignsInAsPromised ==
  ASSUME AccountInv, NEW r \in Requests, ~contested[r], WriteFailure(r) \/ WriteSuccess(r),
         UNCHANGED <<address, inUse>>
  PROVE  Policy!Does(cmd[r], Owner(cmd[r]))
<1> DEFINE a == agg[r]
           row == identity[agg[r].id]
<1>1. /\ TypeOK /\ Current(r) /\ pc[r] = "write" /\ cmd[r].kind = "signIn" /\ Update(r)
  BY DEF AccountInv, UncontestedIsCurrent, WriteFailure, WriteSuccess
<1>2. SignInCurrent(r)
  BY <1>1 DEF Current
<1>3. /\ a.id \in Id /\ row # None /\ Policy!Touches(a.id)
      /\ identity'[a.id] = ToDto(a) /\ row \in IdentityRow
  BY <1>1, UpdateTouches
<1>4. /\ row.lockedUntil \in {None} \cup 0 .. now /\ a.password = row.password
      /\ Tried(cmd[r].password, a, row)
  BY <1>1, <1>2 DEF SignInCurrent
<1>5. ToDto(a).password = a.password /\ ToDto(a).attempts = a.attempts
      /\ ToDto(a).lockedUntil = a.lockedUntil
  BY DEF ToDto
<1>6. row.attempts \in 0 .. MaxCount /\ MaxCount \in Nat
  BY <1>3, TimeAssumption DEF IdentityRow
<1>7. row.password.of # cmd[r].password =>
        \/ a.attempts = row.attempts + 1
        \/ row.attempts = MaxCount /\ a.attempts = MaxCount
  BY <1>4, <1>6 DEF Tried
<1>8. Policy!SignsIn(cmd[r].password)
  BY <1>3, <1>4, <1>5, <1>7 DEF Policy!SignsIn, Tried
<1> QED BY <1>1, <1>8 DEF Policy!Does

LEMMA ResetsAsPromised ==
  ASSUME AccountInv, NEW r \in Requests, ~contested[r], WriteReset(r),
         UNCHANGED <<address, inUse>>
  PROVE  Policy!Does(cmd[r], Owner(cmd[r]))
<1> DEFINE a == agg[r]
           row == identity[agg[r].id]
<1>1. /\ TypeOK /\ Handler(r) /\ Current(r) /\ pc[r] = "write"
      /\ cmd[r].kind = "updatePassword" /\ Update(r)
  BY DEF AccountInv, UncontestedIsCurrent, HandlerState, WriteReset
<1>2. ResetCurrent(r) /\ a.id = issued[cmd[r].token].id
  BY <1>1 DEF Current, Handler
<1>3. /\ a.id \in Id /\ row # None /\ Policy!Touches(a.id)
      /\ identity'[a.id] = ToDto(a) /\ row \in IdentityRow
  BY <1>1, UpdateTouches
<1>4. /\ a.password.of = cmd[r].password
      /\ a.attempts = row.attempts /\ a.lockedUntil = row.lockedUntil
  BY <1>2 DEF ResetCurrent
<1>5. ToDto(a) = [row EXCEPT !.password = ToDto(a).password]
      /\ ToDto(a).password.of = cmd[r].password
  BY <1>3, <1>4 DEF ToDto, IdentityRow
<1>6. Owner(cmd[r]) = a.id
  BY <1>1, <1>2 DEF Owner
<1>7. Policy!Resets(a.id, cmd[r].password)
  BY <1>3, <1>5 DEF Policy!Resets
<1> QED BY <1>1, <1>6, <1>7 DEF Policy!Does

LEMMA UpdatesTenantAsPromised ==
  ASSUME AccountInv, NEW r \in Requests, ~contested[r], WriteTenant(r)
  PROVE  Policy!Does(cmd[r], Owner(cmd[r]))
<1> DEFINE i == agg[r].tenant
           c == cmd[r]
           row == [ownerName |-> agg[r].ownerName,
                   domain |-> Or(agg[r].domain, profile[i].domain)]
<1>1. /\ TypeOK /\ Handler(r) /\ Current(r) /\ pc[r] = "writeTenant"
      /\ profile' = [profile EXCEPT ![i] = row] /\ UNCHANGED <<identity, address>>
  BY DEF AccountInv, UncontestedIsCurrent, HandlerState, WriteTenant
<1>2. /\ c.kind = "updateTenant" /\ i \in Id /\ profile[i] \in TenantRow
      /\ agg[r] = EditTenant(i, c) /\ agg[r] \in TenantAggregate
  BY <1>1 DEF Handler, KindsAt, Places, Current, TenantAggregate
<1>3. /\ row.ownerName = IF c.ownerName = None THEN profile[i].ownerName ELSE c.ownerName
      /\ row.domain = IF c.domain = None THEN profile[i].domain ELSE c.domain
  BY <1>2 DEF EditTenant, Or
<1>4. row \in TenantRow
  BY <1>2 DEF TenantAggregate, TenantRow, Or
<1> HIDE DEF row
<1>5. profile'[i] = row /\ row # None /\ profile[i] # None
  BY <1>1, <1>2, <1>4, DirectoryRowsAssumption DEF TypeOK
<1>6. Policy!Only(profile, profile', i)
  BY <1>1 DEF TypeOK, Policy!Only
<1>7. \A f \in {"ownerName", "domain"} : Policy!Row(profile[i], profile'[i], f, c[f])
  <2>1. Policy!Row(profile[i], profile'[i], "ownerName", c["ownerName"])
    BY <1>3, <1>5 DEF Policy!Row
  <2>2. Policy!Row(profile[i], profile'[i], "domain", c["domain"])
    BY <1>3, <1>5 DEF Policy!Row
  <2> QED BY <2>1, <2>2
<1>8. Policy!UpdatesTenant(c)
  BY <1>1, <1>2, <1>5, <1>6, <1>7 DEF Policy!UpdatesTenant
<1> QED BY <1>2, <1>8 DEF Policy!Does

LEMMA CreatesAddressAsPromised ==
  ASSUME AccountInv, NEW r \in Requests, ~contested[r], InsertAddress(r)
  PROVE  Policy!Does(cmd[r], Owner(cmd[r]))
<1> DEFINE c == cmd[r]
<1>1. /\ TypeOK /\ Handler(r) /\ Current(r) /\ Fresh(r) /\ pc[r] = "insertAddress"
      /\ r \in AddressId
      /\ address' = [address EXCEPT ![agg[r].id] = Row(agg[r])]
      /\ UNCHANGED <<identity, profile>>
  BY DEF AccountInv, UncontestedIsCurrent, HandlerState, NothingFromTheFuture,
         InsertAddress, WriteAddressRow, rows, AddressId
<1>2. /\ c.kind = "createAddress" /\ agg[r].id = r /\ address[r] = None
      /\ agg[r].name = c.name /\ agg[r].city = c.city
  BY <1>1 DEF Handler, KindsAt, Places, Current, Fresh, Ended
<1>3. address'[r].name = c.name /\ address'[r].city = c.city
  BY <1>1, <1>2 DEF TypeOK, Row
<1>4. Policy!Only(address, address', r)
  BY <1>1, <1>2 DEF TypeOK, Policy!Only
<1>5. Policy!CreatesAddress(c)
  BY <1>1, <1>2, <1>3, <1>4 DEF Policy!CreatesAddress
<1> QED BY <1>2, <1>5 DEF Policy!Does

LEMMA UpdatesAddressAsPromised ==
  ASSUME AccountInv, NEW r \in Requests, ~contested[r], UpdateAddress(r)
  PROVE  Policy!Does(cmd[r], Owner(cmd[r]))
<1> DEFINE c == cmd[r]
           k == c.address
<1>1. /\ TypeOK /\ Handler(r) /\ Current(r) /\ pc[r] = "updateAddress"
      /\ address' = [address EXCEPT ![agg[r].id] = Row(agg[r])]
      /\ UNCHANGED <<identity, profile>>
  BY DEF AccountInv, UncontestedIsCurrent, HandlerState, UpdateAddress,
         WriteAddressRow, rows
<1>2. /\ c \in workload /\ c.kind = "updateAddress" /\ address[k] # None
      /\ agg[r] = EditAddress(AddressOf(k), c) /\ agg[r] \in AddressAggregate
  BY <1>1 DEF Handler, KindsAt, Places, Current, OnAddress
<1>3. k \in AddressId /\ address[k] \in AddressRow
  BY <1>1, <1>2, CommandFacts DEF TypeOK
<1>4. /\ agg[r].id = k /\ Row(agg[r]).owner = address[k].owner
      /\ Row(agg[r]).name = IF c.name = None THEN address[k].name ELSE c.name
      /\ Row(agg[r]).city = IF c.city = None THEN address[k].city ELSE c.city
  BY <1>2 DEF EditAddress, AddressOf, Row, Or
<1>5. address'[k] = Row(agg[r]) /\ Row(agg[r]) # None
  BY <1>1, <1>2, <1>3, <1>4, AddressRowFacts, DirectoryRowsAssumption DEF TypeOK
<1>6. Policy!Only(address, address', k)
  BY <1>1, <1>4 DEF TypeOK, Policy!Only
<1>7. \A f \in {"name", "city"} : Policy!Row(address[k], address'[k], f, c[f])
  <2>1. Policy!Row(address[k], address'[k], "name", c["name"])
    BY <1>4, <1>5 DEF Policy!Row
  <2>2. Policy!Row(address[k], address'[k], "city", c["city"])
    BY <1>4, <1>5 DEF Policy!Row
  <2> QED BY <2>1, <2>2
<1>8. Policy!UpdatesAddress(c)
  BY <1>1, <1>2, <1>4, <1>5, <1>6, <1>7 DEF Policy!UpdatesAddress
<1> QED BY <1>2, <1>8 DEF Policy!Does

LEMMA DeletesAddressAsPromised ==
  ASSUME AccountInv, NEW r \in Requests, ~contested[r], DeleteAddress(r)
  PROVE  Policy!Does(cmd[r], Owner(cmd[r]))
<1> DEFINE c == cmd[r]
           k == c.address
<1>1. /\ TypeOK /\ Handler(r) /\ Current(r) /\ pc[r] = "deleteAddress"
      /\ address' = [address EXCEPT ![agg[r].id] = None]
      /\ UNCHANGED <<identity, profile>>
  BY DEF AccountInv, UncontestedIsCurrent, HandlerState, DeleteAddress,
         WriteAddressRow, rows
<1>2. /\ c \in workload /\ c.kind = "deleteAddress" /\ address[k] # None
      /\ agg[r] = AddressOf(k)
  BY <1>1 DEF Handler, KindsAt, Places, Current
<1>3. k \in AddressId /\ agg[r].id = k
  BY <1>1, <1>2, CommandFacts DEF AddressOf
<1>4. Policy!Only(address, address', k) /\ address'[k] = None
  BY <1>1, <1>3 DEF TypeOK, Policy!Only
<1>5. Policy!DeletesAddress(c)
  BY <1>1, <1>2, <1>4 DEF Policy!DeletesAddress
<1> QED BY <1>2, <1>5 DEF Policy!Does

\* A command that no other one overtook does what AccountPolicy promises of it,
\* although handlers write whole rows and hash what looks like a new password.
THEOREM UncontestedCommandsAlways == Spec => UncontestedCommands
<1>1. ASSUME AccountInv, [Next]_vars, NEW r \in Requests, Commits(r), ~contested[r]
      PROVE  Policy!Does(cmd[r], Owner(cmd[r]))
  <2>1. TypeOK
    BY <1>1 DEF AccountInv
  <2> QED BY <1>1, <2>1, Committing, InsertsAsPromised, SignsInAsPromised,
             ResetsAsPromised, UpdatesTenantAsPromised, CreatesAddressAsPromised,
             UpdatesAddressAsPromised, DeletesAddressAsPromised
<1>2. AccountInv /\ [Next]_vars =>
        [\A r \in Requests :
           Commits(r) /\ ~contested[r] => Policy!Does(cmd[r], Owner(cmd[r]))]_vars
  BY <1>1
<1> QED BY <1>2, InductiveInvariant, PTL DEF Spec, UncontestedCommands
=============================================================================
