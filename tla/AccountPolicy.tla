--------------------------- MODULE AccountPolicy ---------------------------
(***************************************************************************)
(* What each command promises about the rows of accounts, as one step:     *)
(* the identities of an address, their tenants and the tenants' addresses. *)
(***************************************************************************)
EXTENDS Naturals

CONSTANTS Id, AddressId, Threshold, LockTime, MaxCount, None

VARIABLES now, identity, profile, address

Only(before, after, k) ==
  \A other \in DOMAIN before \ {k} : after[other] = before[other]

\* One identity comes or changes, and nothing else.
Touches(i) == Only(identity, identity', i) /\ UNCHANGED <<profile, address>>

Registers(password) ==
  \E i \in Id :
    /\ \A j \in Id : identity[j] = None
    /\ Touches(i)
    /\ identity'[i].password.of = password
    /\ identity'[i].attempts = 0 /\ identity'[i].lockedUntil = None

\* The right password clears the count; the wrong one counts, and locks the
\* identity once there are Threshold of them.  Nobody gets to try while it is
\* locked.
SignsIn(password) ==
  \E i \in Id :
    LET before == identity[i]
        after == identity'[i] IN
    /\ before # None /\ Touches(i)
    /\ after.password = before.password
    /\ before.lockedUntil \in {None} \cup 0 .. now
    /\ IF before.password.of = password
       THEN after.attempts = 0 /\ after.lockedUntil = None
       ELSE /\ \/ after.attempts = before.attempts + 1
               \/ before.attempts = MaxCount /\ after.attempts = MaxCount
            /\ IF after.attempts < Threshold THEN after.lockedUntil = None
               ELSE after.lockedUntil \in LockTime .. (now + LockTime)

\* A reset changes the password and lifts no lock.
Resets(i, password) ==
  /\ Touches(i)
  /\ identity'[i].password.of = password
  /\ identity'[i] = [identity[i] EXCEPT !.password = identity'[i].password]

Row(before, after, field, value) ==
  after[field] = IF value = None THEN before[field] ELSE value

UpdatesTenant(c) ==
  \E i \in Id :
    /\ profile[i] # None /\ profile'[i] # None
    /\ Only(profile, profile', i) /\ UNCHANGED <<identity, address>>
    /\ \A f \in {"ownerName", "domain"} : Row(profile[i], profile'[i], f, c[f])

CreatesAddress(c) ==
  \E a \in AddressId :
    /\ address[a] = None
    /\ Only(address, address', a) /\ UNCHANGED <<identity, profile>>
    /\ address'[a].name = c.name /\ address'[a].city = c.city

UpdatesAddress(c) ==
  /\ address[c.address] # None /\ address'[c.address] # None
  /\ Only(address, address', c.address) /\ UNCHANGED <<identity, profile>>
  /\ address'[c.address].owner = address[c.address].owner
  /\ \A f \in {"name", "city"} :
       Row(address[c.address], address'[c.address], f, c[f])

DeletesAddress(c) ==
  /\ address[c.address] # None /\ address'[c.address] = None
  /\ Only(address, address', c.address) /\ UNCHANGED <<identity, profile>>

Does(c, i) ==
  CASE c.kind = "register" -> Registers(c.password)
    [] c.kind = "signIn" -> SignsIn(c.password)
    [] c.kind = "updatePassword" -> Resets(i, c.password)
    [] c.kind = "updateTenant" -> UpdatesTenant(c)
    [] c.kind = "createAddress" -> CreatesAddress(c)
    [] c.kind = "updateAddress" -> UpdatesAddress(c)
    [] c.kind = "deleteAddress" -> DeletesAddress(c)
=============================================================================
