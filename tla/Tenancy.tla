------------------------------ MODULE Tenancy ------------------------------
(***************************************************************************)
(* Accounts as a whole: the identities, the tenant that follows from the   *)
(* event of a registration, and the tenant's addresses, edited by those    *)
(* who hold a session.  Tenants and addresses are loaded, edited in memory *)
(* and written back whole, like identities.  A tenant is named after its   *)
(* identity; so is the tenant that a customer's session speaks for.        *)
(***************************************************************************)
EXTENDS Identities

CONSTANTS
  InitAddresses,  \* addresses that may exist at start
  Names, Domains, Cities,
  TakenDomains,   \* domains of other tenants
  Local,          \* what stands before the @ of the address
  Customer        \* the row of a customer

AddressId == InitAddresses \cup Requests

ASSUME DirectoryAssumption ==
  /\ Local \in Names
  /\ None \notin Names \cup Domains \cup Cities \cup {Customer}
  /\ TakenDomains \subseteq Domains
  /\ InitAddresses \cap Requests = {} /\ Cities # {}

TenantRow == [ownerName : Names, domain : Domains \cup {None}]
TenantAggregate ==
  [tenant : Id, ownerName : Names, domain : Domains \cup {None}]
AddressRow == [owner : Id, name : Names, city : Cities]
AddressAggregate == [id : AddressId, owner : Id, name : Names, city : Cities]

ASSUME DirectoryRowsAssumption == None \notin TenantRow \cup AddressRow

DirectoryCommand ==
  [kind : {"updateTenant"}, token : Token,
   ownerName : Names \cup {None}, domain : Domains \cup {None}]
    \cup [kind : {"createAddress"}, token : Token, name : Names, city : Cities]
    \cup [kind : {"updateAddress"}, token : Token, address : AddressId,
          name : Names \cup {None}, city : Cities \cup {None}]
    \cup [kind : {"deleteAddress"}, token : Token, address : AddressId]

ASSUME WorkloadsAssumption ==
  \A w \in Workloads : w \subseteq IdentityCommand \cup DirectoryCommand

VARIABLES
  address,  \* the committed rows of Address
  inUse     \* addresses of warehouses

vars == <<identityVars, address, inUse>>

-----------------------------------------------------------------------------
\* Edits in memory: what the input leaves out stays.

Or(value, otherwise) == IF value = None THEN otherwise ELSE value

EditTenant(i, c) ==
  [tenant |-> i,
   ownerName |-> Or(c.ownerName, profile[i].ownerName),
   domain |-> Or(c.domain, profile[i].domain)]

\* The aggregate of address a, as it was read.
AddressOf(a) == [id |-> a, owner |-> address[a].owner,
                 name |-> address[a].name, city |-> address[a].city]

EditAddress(a, c) == [a EXCEPT !.name = Or(c.name, @), !.city = Or(c.city, @)]

\* A session speaks for a tenant, a token for a reset for nobody.
SpeaksFor(t, i) ==
  /\ Verifies(t) /\ issued[t].purpose = "session" /\ issued[t].id = i

\* Updates and deletions want a tenant or a customer and not both, and a
\* customer's session has both.
MayEdit(t, i) == SpeaksFor(t, i) /\ accountType = "TENANT"

FindById(a, i) == IF address[a] = None THEN FALSE ELSE address[a].owner = i

\* @@unique([tenantId, name])
NameTaken(a, i, name) ==
  \E b \in AddressId \ {a} : FindById(b, i) /\ address[b].name = name

DomainTaken(i, domain) ==
  \/ domain \in TakenDomains
  \/ \E j \in Id \ {i} :
       profile[j] \in TenantRow /\ profile[j].domain = domain /\ domain # None

-----------------------------------------------------------------------------
\* Tenants.

\* Mutant: the tenant is built and not saved.
BuildTenant(i) ==
  /\ i \in events /\ profile[i] = None
  /\ events' = events \ {i}
  /\ UNCHANGED <<rows, issued, blacklist, limiter, lost, pc, locals>>
  /\ UNCHANGED <<address, inUse>> /\ Clock

\* The handler of the event, which nobody waits for.
CreateTenant(i) ==
  /\ i \in events /\ profile[i] = None
  /\ profile' = [profile EXCEPT ![i] = [ownerName |-> Local, domain |-> None]]
  /\ events' = events \ {i}
  /\ UNCHANGED <<identity, issued, blacklist, limiter, lost, pc, locals>>
  /\ UNCHANGED <<address, inUse>> /\ Clock

\* The name is too short, or the insert fails: the error has no one to go to.
LoseTenant(i) ==
  /\ i \in events
  /\ events' = events \ {i} /\ lost' = lost \cup {i}
  /\ UNCHANGED <<rows, issued, blacklist, limiter, pc, locals>>
  /\ UNCHANGED <<address, inUse>> /\ Clock

LoadTenant(r, c) ==
  /\ Begin(r, c) /\ c.kind = "updateTenant"
  /\ \E i \in Id :
       /\ SpeaksFor(c.token, i) /\ profile[i] \in TenantRow
       /\ agg' = [agg EXCEPT ![r] = EditTenant(i, c)]
  /\ Enter(r, c, "writeTenant")
  /\ Uncommitted(r)
  /\ UNCHANGED <<rows, process, address, inUse>> /\ Clock

\* Default numbers and addresses are in the answer and not in the row; a domain
\* that the aggregate lacks leaves the column alone.  findUniqueOrThrow always
\* finds the tenant: no command deletes one.
WriteTenant(r) ==
  /\ pc[r] = "writeTenant"
  /\ profile[agg[r].tenant] \in TenantRow
  /\ ~DomainTaken(agg[r].tenant, agg[r].domain)
  /\ profile' = [profile EXCEPT ![agg[r].tenant] =
       [ownerName |-> agg[r].ownerName, domain |-> Or(agg[r].domain, @.domain)]]
  /\ Committed(r) /\ Leave(r, "ok")
  /\ UNCHANGED <<identity, process, address, inUse>> /\ Clock

-----------------------------------------------------------------------------
\* Addresses.

CreateAddress(r, c) ==
  /\ Begin(r, c) /\ c.kind = "createAddress"
  /\ \E i \in Id :
       /\ SpeaksFor(c.token, i)
       /\ agg' = [agg EXCEPT ![r] =
            [id |-> r, owner |-> i, name |-> c.name, city |-> c.city]]
  /\ Enter(r, c, "insertAddress")
  /\ Uncommitted(r)
  /\ UNCHANGED <<rows, process, address, inUse>> /\ Clock

Row(a) == [owner |-> a.owner, name |-> a.name, city |-> a.city]

WriteAddressRow(r, row) ==
  /\ address' = [address EXCEPT ![agg[r].id] = row]
  /\ Committed(r) /\ Leave(r, "ok")
  /\ UNCHANGED <<rows, process, inUse>> /\ Clock

InsertAddress(r) ==
  /\ pc[r] = "insertAddress"
  /\ ~NameTaken(agg[r].id, agg[r].owner, agg[r].name)
  /\ WriteAddressRow(r, Row(agg[r]))

Load(r, c, place, a) ==
  /\ agg' = [agg EXCEPT ![r] = a]
  /\ Enter(r, c, place)
  /\ Uncommitted(r)
  /\ UNCHANGED <<rows, process, address, inUse>> /\ Clock

LoadForUpdate(r, c) ==
  /\ Begin(r, c) /\ c.kind = "updateAddress"
  /\ \E i \in Id : MayEdit(c.token, i) /\ FindById(c.address, i)
  /\ Load(r, c, "updateAddress", EditAddress(AddressOf(c.address), c))

UpdateAddress(r) ==
  /\ pc[r] = "updateAddress"
  /\ FindById(agg[r].id, agg[r].owner)
  /\ ~NameTaken(agg[r].id, agg[r].owner, agg[r].name)
  /\ WriteAddressRow(r, Row(agg[r]))

LoadForDelete(r, c) ==
  /\ Begin(r, c) /\ c.kind = "deleteAddress"
  /\ \E i \in Id : MayEdit(c.token, i) /\ FindById(c.address, i)
  /\ Load(r, c, "deleteAddress", AddressOf(c.address))

\* Mutant: a foreign key that lets the address go.
FreeAlways(a) == TRUE

\* A warehouse's reference restricts the deletion of its address.
Free(a) == a \notin inUse

DeleteAddress(r) ==
  /\ pc[r] = "deleteAddress"
  /\ FindById(agg[r].id, agg[r].owner) /\ Free(agg[r].id)
  /\ WriteAddressRow(r, None)

\* The guard, the handler or its first read says no.
RefuseEdit(r, c) ==
  /\ Begin(r, c)
  /\ \/ /\ c.kind = "createAddress"
        /\ ~\E i \in Id : SpeaksFor(c.token, i)
     \/ /\ c.kind = "updateTenant"
        /\ ~\E i \in Id : SpeaksFor(c.token, i) /\ profile[i] \in TenantRow
     \/ /\ c.kind \in {"updateAddress", "deleteAddress"}
        /\ ~\E i \in Id : MayEdit(c.token, i) /\ FindById(c.address, i)
  /\ Answered(r, "refused") /\ UNCHANGED <<address, inUse>>

\* The database says no: a unique key, a row that has gone, a reference.
WriteRefused(r) ==
  /\ \/ /\ pc[r] = "writeTenant"
        /\ DomainTaken(agg[r].tenant, agg[r].domain)
     \/ /\ pc[r] \in {"insertAddress", "updateAddress"}
        /\ NameTaken(agg[r].id, agg[r].owner, agg[r].name)
     \/ /\ pc[r] \in {"updateAddress", "deleteAddress"}
        /\ ~FindById(agg[r].id, agg[r].owner)
     \/ pc[r] = "deleteAddress" /\ ~Free(agg[r].id)
  /\ Leave(r, "refused")
  /\ UNCHANGED <<rows, process, address, inUse>> /\ Uncommitted(r) /\ Clock

\* A warehouse comes to an address, or leaves it.
Settle(a) ==
  /\ address[a] # None /\ a \notin inUse
  /\ inUse' = inUse \cup {a}
  /\ UNCHANGED <<now, fixed, rows, process, pc, locals, address>>
Depart(a) ==
  /\ a \in inUse
  /\ inUse' = inUse \ {a}
  /\ UNCHANGED <<now, fixed, rows, process, pc, locals, address>>

-----------------------------------------------------------------------------
\* Where the program may start: nothing is there; or an identity that has failed
\* before, perhaps locked, perhaps not any more, with a token out and mails
\* sent, each where the workload makes something of it.

Sends(kinds) == \E c \in workload : c.kind \in kinds

InitIdentity(i) ==
  {row \in [password : {[of |-> p, salt |-> i] : p \in Passwords},
            attempts : IF Sends({"signIn"}) THEN 0 .. Threshold ELSE {0},
            lockedUntil : {None, 0, LockTime}] :
     row.attempts >= Threshold <=> row.lockedUntil # None}

InitProfile ==
  IF accountType = "TENANT" THEN [ownerName : {Local}, domain : {None}]
  ELSE {Customer, None}

InitClaims(i) ==
  IF Sends({"updatePassword"})
  THEN [purpose |-> "reset", id |-> i, expires |-> ResetLife]
  ELSE [purpose |-> "session", id |-> i, expires |-> SessionLife]

InitAddress(i) ==
  IF Sends({"updateAddress"})
  THEN [owner |-> i, name |-> Local, city |-> CHOOSE c \in Cities : TRUE]
  ELSE None

NothingThere ==
  /\ identity = [j \in Id |-> None] /\ profile = [j \in Id |-> None]
  /\ issued = [t \in Token |-> None]
  /\ address = [a \in AddressId |-> None]

OneThere(i) ==
  /\ \E row \in InitIdentity(i) :
       identity = [j \in Id |-> IF j = i THEN row ELSE None]
  /\ \E row \in InitProfile :
       profile = [j \in Id |-> IF j = i THEN row ELSE None]
  /\ issued = [t \in Token |-> IF t \in InitTokens THEN InitClaims(i) ELSE None]
  /\ address = [a \in AddressId |->
                  IF a \in InitAddresses THEN InitAddress(i) ELSE None]

Init ==
  /\ now = 0
  /\ accountType \in {"TENANT", "CUSTOMER"} /\ workload \in Workloads
  \* The tenant that a customer's session speaks for is not modelled.
  /\ accountType = "CUSTOMER" => ~Sends({"updateTenant"})
  /\ NothingThere \/ \E i \in InitIds : OneThere(i)
  /\ blacklist = {} /\ events = {} /\ lost = {} /\ inUse = {}
  /\ limiter \in IF Sends({"forgotPassword"})
                 THEN {None, [count |-> 1, resetTime |-> Window]} ELSE {None}
  /\ pc = [r \in Requests |-> "idle"]
  /\ cmd = [r \in Requests |-> None] /\ agg = [r \in Requests |-> None]
  /\ contested = [r \in Requests |-> FALSE]

Start(r) ==
  \/ StartIdentity(r) /\ UNCHANGED <<address, inUse>>
  \/ \E c \in workload :
       \/ LoadTenant(r, c) \/ CreateAddress(r, c)
       \/ LoadForUpdate(r, c) \/ LoadForDelete(r, c) \/ RefuseEdit(r, c)

Step(r) ==
  \/ StepIdentity(r) /\ UNCHANGED <<address, inUse>>
  \/ WriteTenant(r) \/ InsertAddress(r) \/ UpdateAddress(r) \/ DeleteAddress(r)
  \/ WriteRefused(r)

Environment ==
  /\ \/ Tick \/ Restart
     \/ \E r \in Requests : Abort(r)
  /\ UNCHANGED <<address, inUse>>

CleanUp == Cleanup /\ UNCHANGED <<address, inUse>>

\* Every request has been answered and the clock has stopped.
Served ==
  /\ \A r \in Requests : pc[r] \in Ended
  /\ now = MaxTime /\ UNCHANGED vars

Next ==
  \/ \E r \in Requests : Start(r) \/ Step(r)
  \/ \E i \in Id : CreateTenant(i) \/ LoseTenant(i)
  \/ \E a \in AddressId : Settle(a) \/ Depart(a)
  \/ CleanUp \/ Environment \/ Served

Spec == Init /\ [][Next]_vars

\* An event that was published is handled.
FairSpec == Spec /\ \A i \in Id : WF_vars(CreateTenant(i))

-----------------------------------------------------------------------------
Places == {"insert", "publish", "compare", "read", "write", "profile", "lookUp",
           "find", "conclude", "revoke", "writeTenant", "insertAddress",
           "updateAddress", "deleteAddress"}

\* Every variable has its type.
TypeOK ==
  /\ now \in 0 .. MaxTime
  /\ accountType \in {"TENANT", "CUSTOMER"} /\ workload \in Workloads
  /\ identity \in [Id -> IdentityRow \cup {None}]
  /\ profile \in [Id -> TenantRow \cup {Customer, None}]
  /\ issued \in [Token -> TokenClaims \cup {None}]
  /\ blacklist \subseteq Token
  /\ limiter \in LimitEntry \cup {None}
  /\ events \subseteq Id /\ lost \subseteq Id
  /\ pc \in [Requests -> Places \cup Idle]
  /\ cmd \in [Requests -> workload \cup {None}]
  /\ agg \in [Requests -> IdentityAggregate \cup TenantAggregate
                            \cup AddressAggregate \cup {None}]
  /\ contested \in [Requests -> BOOLEAN]
  /\ address \in [AddressId -> AddressRow \cup {None}]
  /\ inUse \subseteq AddressId

\* The lock and the count are columns of their own that overlapping sign-ins
\* and resets write from stale copies: they agree all the same, and an identity
\* that has a time of locking has as many failures as it takes.
LockMatchesCount ==
  \A i \in There :
    (identity[i].lockedUntil # None) <=> (identity[i].attempts >= Threshold)

\* isRateLimited and recordAttempt test the window's end each for itself: they
\* agree at every instant, the last of the window included, so that no request
\* that was let through raises a count that stands at the limit.
LimitRespected == limiter # None => limiter.count \in 1 .. MaxAttempts

\* The tenant follows from an event that nobody waits for and nothing retries:
\* a tenant's identity that has none is being registered, has its event under
\* way, or was registered by a request or an event that failed.
TenantlessForReason ==
  accountType = "TENANT" =>
    \A i \in There :
      profile[i] = None =>
        i \in events \cup lost \/ (i \in Requests /\ pc[i] = "publish")

\* A warehouse has its address, though the deletion checked nothing before it
\* was asked.
WarehousesHaveAddresses == \A a \in inUse : address[a] # None

\* A command that no other one overtook between its first read and its commit
\* does what it promises and nothing else, although it writes whole rows and
\* hashes what it takes for a new password.
Policy == INSTANCE AccountPolicy

Commits(r) ==
  \/ pc[r] \in {"insert", "write"} /\ pc'[r] \in {"publish", "profile", "conclude"}
  \/ pc[r] = "write" /\ pc'[r] = "refused"
  \/ pc[r] \in {"writeTenant", "insertAddress", "updateAddress", "deleteAddress"}
       /\ pc'[r] = "ok"

Owner(c) == IF c.kind = "updatePassword" THEN issued[c.token].id ELSE None

UncontestedCommands ==
  [][\A r \in Requests :
       Commits(r) /\ ~contested[r] => Policy!Does(cmd[r], Owner(cmd[r]))]_vars

\* A registration that was answered has its tenant in the end, unless its event
\* is lost.
TenantComes ==
  \A i \in Id : i \in events ~> (profile[i] # None \/ i \in lost)
=============================================================================
