----------------------------- MODULE MCTenancy -----------------------------
(* Instances of Tenancy for TLC.                                            *)
EXTENDS TenancyInv

CONSTANTS t0, a1, a2, p1, p2, n1, n2, d1, d2, c1, c2

Registers == [kind : {"register"}, password : {p1}]
SignIns == [kind : {"signIn"}, password : {p1, p2}]
Mails == [kind : {"forgotPassword"}]
Resets == [kind : {"updatePassword"}, token : {t0}, password : {p1}]
SignOuts == [kind : {"signOut"}, token : {t0}]
Edits ==
  [kind : {"createAddress"}, token : {t0}, name : {n1, n2}, city : {c2}]
    \cup [kind : {"updateAddress"}, token : {t0}, address : {a1},
          name : {n2, None}, city : {c2, None}]
    \cup [kind : {"deleteAddress"}, token : {t0}, address : {a1}]
Tenants ==
  [kind : {"updateTenant"}, token : {t0}, ownerName : {n2, None},
   domain : {d1, d2, None}]

\* What clients send in one behaviour.
MCWorkloads ==
  {Registers \cup SignIns, SignIns \cup Resets, Mails \cup Resets,
   SignOuts \cup Edits, SignOuts \cup Tenants}
=============================================================================
