-------------------------------- MODULE Oath --------------------------------
(***************************************************************************)
(* What an Allegiance promises: every handshake is judged at one instant   *)
(* against the one owner run this helper serves, the first it was shown or *)
(* was told of.                                                            *)
(***************************************************************************)
CONSTANTS
  Thread,  \* who asks
  Run,     \* runs of an owner
  Compat,  \* what they may speak
  Ours,    \* what this helper speaks
  Unsworn  \* no run yet

VARIABLES
  owner,   \* the run it serves
  answer   \* answer[t]: what t asked about last, and what it was told

vars == <<owner, answer>>

Identity == [run : Run, compat : Compat]

Init ==
  /\ owner \in Run \cup {Unsworn}   \* told, or not
  /\ answer = [t \in Thread |-> [is |-> "None"]]

Judged(t, identity, standing) ==
  answer' = [answer EXCEPT ![t] = [is |-> standing, of |-> identity]]

Observe(t, identity) ==
  \/ identity.compat # Ours /\ Judged(t, identity, "Incompatible") /\ UNCHANGED owner
  \/ /\ identity.compat = Ours /\ owner \in {Unsworn, identity.run}
     /\ owner' = identity.run /\ Judged(t, identity, "Current")
  \/ /\ identity.compat = Ours /\ owner \notin {Unsworn, identity.run}
     /\ Judged(t, identity, "NewRun") /\ UNCHANGED owner

Next == \E t \in Thread, identity \in Identity : Observe(t, identity)

Spec == Init /\ [][Next]_vars
=============================================================================
