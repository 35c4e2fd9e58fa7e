-------------------------------- MODULE Seat --------------------------------
(***************************************************************************)
(* What a role promises, as an abstract specification: a seat that is      *)
(* empty or taken, and that always says who is in it.  "The record is      *)
(* written as part of taking the role, not after it" (src/src/role.rs):    *)
(* here taking the seat and naming oneself is one indivisible step, and so *)
(* is giving both up.  Module Role shows how far two files, an advisory    *)
(* lock and a rename come to this.                                         *)
(***************************************************************************)
CONSTANTS
  Process,  \* the processes that may take the seat
  Record,   \* what a tenant can say of itself: a record with a field tenant
  Nobody,   \* the tenant of an empty seat
  Absent    \* the name of an empty seat

VARIABLES
  tenant,   \* who is in the seat, or Nobody
  name      \* what the tenant last said of itself, or Absent

vars == <<tenant, name>>

SignedBy(p) == {r \in Record : r.tenant = p}

Init == tenant = Nobody /\ name = Absent

\* Role::claim that returns Ok.
Take(p) == tenant = Nobody /\ tenant' = p /\ name' \in SignedBy(p)

\* Tenancy::publish that returns Ok.
Correct(p) == tenant = p /\ tenant' = p /\ name' \in SignedBy(p)

\* The Tenancy is dropped, or its process dies.
Leave(p) == tenant = p /\ tenant' = Nobody /\ name' = Absent

Next == \E p \in Process : Take(p) \/ Correct(p) \/ Leave(p)

Spec == Init /\ [][Next]_vars
=============================================================================
