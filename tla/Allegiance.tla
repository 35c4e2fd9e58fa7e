----------------------------- MODULE Allegiance -----------------------------
(***************************************************************************)
(* One Allegiance (src/src/standing.rs) shared by the threads of a helper: *)
(* observe takes &self, and between its look at the OnceLock and its own   *)
(* attempt to set it other calls run.                                      *)
(***************************************************************************)
CONSTANTS
  Thread,  \* threads of the helper that see handshakes
  Run,     \* runs an owner may show
  Compat,  \* what an owner may speak
  Ours,    \* Allegiance::ours
  Unsworn  \* an OnceLock that is not set

ASSUME AllegianceConstants ==
  /\ Ours \in Compat
  /\ Unsworn \notin Run

VARIABLES
  owner,   \* the OnceLock
  pc,      \* pc[t]: "idle", or the next step of the observe t is in
  shown,   \* shown[t]: the identity that observe was given
  answer,  \* answer[t]: what t's last observe was given and returned
  began,   \* began[t]: the owner at the start of t's observe
  sworn    \* what Allegiance::to was given, or Unsworn for Allegiance::new

vars == <<owner, pc, shown, answer, began, sworn>>

Identity == [run : Run, compat : Compat]
Unasked == [is |-> "None"]
Standing == {"Current", "Incompatible", "NewRun"}
Owner == Run \cup {Unsworn}

\* Every variable holds what the code could hold there.
TypeOK ==
  /\ owner \in Owner
  /\ pc \in [Thread -> {"idle", "get", "set"}]
  /\ shown \in [Thread -> Identity]
  /\ answer \in [Thread -> [is : Standing, of : Identity] \cup {Unasked}]
  /\ began \in [Thread -> Owner]
  /\ sworn \in Owner

\* Allegiance::new, or Allegiance::to.
Init ==
  /\ sworn \in Owner /\ owner = sworn
  /\ pc = [t \in Thread |-> "idle"]
  /\ shown \in [Thread -> Identity]
  /\ answer = [t \in Thread |-> Unasked]
  /\ began = [t \in Thread |-> sworn]

Returns(t, identity, standing) ==
  /\ answer' = [answer EXCEPT ![t] = [is |-> standing, of |-> identity]]
  /\ pc' = [pc EXCEPT ![t] = "idle"]

\* Mutant of Observe: what the owner speaks is not asked.
ObserveAnyDialect(t, identity) ==
  /\ pc[t] = "idle"
  /\ shown' = [shown EXCEPT ![t] = identity]
  /\ began' = [began EXCEPT ![t] = owner]
  /\ pc' = [pc EXCEPT ![t] = "get"]
  /\ UNCHANGED <<owner, answer, sworn>>

\* observe begins: another dialect is refused before the owner is looked at.
Observe(t, identity) ==
  /\ pc[t] = "idle"
  /\ shown' = [shown EXCEPT ![t] = identity]
  /\ began' = [began EXCEPT ![t] = owner]
  /\ IF identity.compat # Ours
       THEN Returns(t, identity, "Incompatible")
       ELSE pc' = [pc EXCEPT ![t] = "get"] /\ UNCHANGED answer
  /\ UNCHANGED <<owner, sworn>>

\* Mutant of Get: only an owner that was told up front is held against a run.
GetOnlyTold(t) ==
  /\ pc[t] = "get"
  /\ \/ /\ owner = Unsworn
        /\ pc' = [pc EXCEPT ![t] = "set"] /\ UNCHANGED answer
     \/ /\ owner # Unsworn
        /\ Returns(t, shown[t], IF sworn \in {Unsworn, shown[t].run} THEN "Current"
                                                                     ELSE "NewRun")
  /\ UNCHANGED <<owner, shown, began, sworn>>

\* owner.get().
Get(t) ==
  /\ pc[t] = "get"
  /\ \/ /\ owner = Unsworn
        /\ pc' = [pc EXCEPT ![t] = "set"] /\ UNCHANGED answer
     \/ owner = shown[t].run /\ Returns(t, shown[t], "Current")
     \/ owner \notin {Unsworn, shown[t].run} /\ Returns(t, shown[t], "NewRun")
  /\ UNCHANGED <<owner, shown, began, sworn>>

\* Mutant of Set: the cell takes whatever comes last.
SetAnyway(t) ==
  /\ pc[t] = "set"
  /\ owner' = shown[t].run
  /\ Returns(t, shown[t], "Current")
  /\ UNCHANGED <<shown, began, sworn>>

\* owner.set(): whether it was first is not asked.
Set(t) ==
  /\ pc[t] = "set"
  /\ owner' = IF owner = Unsworn THEN shown[t].run ELSE owner
  /\ Returns(t, shown[t], "Current")
  /\ UNCHANGED <<shown, began, sworn>>

Next ==
  \E t \in Thread :
    \/ \E identity \in Identity : Observe(t, identity)
    \/ Get(t) \/ Set(t)

Spec == Init /\ [][Next]_vars

-----------------------------------------------------------------------------
(* Properties.                                                             *)

\* A call that begins after an owner has been remembered is told Current of that
\* owner only, whatever calls that began before it still do to the cell.
LaterCallsAgree ==
  [][\A t \in Thread :
       pc[t] # "idle" /\ pc'[t] = "idle" /\ answer'[t].is = "Current"
         => began[t] \in {Unsworn, answer'[t].of.run}]_vars

\* "Superseded is final" (src/standing.rs:45), as far as the code keeps it and not its
\* caller: a thread that was told so of an owner is told so of it when it asks again,
\* whatever owners other threads see in between.  Of another owner it may hear Current.
TurnedAwayForGood ==
  [][\A t \in Thread :
       answer[t].is \in {"Incompatible", "NewRun"}
         => answer'[t].is # "Current" \/ answer'[t].of # answer[t].of]_vars

\* The strengthening for it: whoever was turned away came after an owner that stays.
TurnedAwayKnowTheOwner ==
  \A t \in Thread :
    /\ answer[t].is = "Incompatible" => answer[t].of.compat # Ours
    /\ answer[t].is = "NewRun" =>
         owner \notin {Unsworn, answer[t].of.run} /\ pc[t] # "set"

\* The strengthening for LaterCallsAgree: the cell is set once, and a call that saw it unset
\* also began before it was set.
OwnerStays ==
  \A t \in Thread :
    /\ pc[t] # "idle" => began[t] \in {Unsworn, owner}
    /\ pc[t] = "set" => began[t] = Unsworn

\* The run it was told is the one it serves, and no call finds the cell unset.
ToldOwnerStays ==
  sworn # Unsworn => owner = sworn /\ \A t \in Thread : pc[t] # "set"

\* Whoever gets as far as the cell speaks our dialect.
DialectsAgree == \A t \in Thread : pc[t] # "idle" => shown[t].compat = Ours

\* All of it together: what every step of observe preserves.
AllegianceInvariant ==
  TypeOK /\ OwnerStays /\ ToldOwnerStays /\ DialectsAgree /\ TurnedAwayKnowTheOwner

\* An Allegiance that was told nothing promises less, and stands for an Oath that
\* nobody asks.
told == sworn # Unsworn
O == INSTANCE Oath WITH owner <- IF told THEN owner ELSE Unsworn,
                        answer <- IF told THEN answer ELSE [t \in Thread |-> Unasked]

\* Told its owner up front, an Allegiance judges every handshake as if observe
\* were one step, however many threads call it.
ImplementsOath == O!Spec

(* What a comment says and the code does not keep.                         *)

\* Current: "Still serving the right owner" (src/standing.rs:80), the one that was
\* "remembered the first time it is seen" (src/standing.rs:15).
CurrentMeansTheOwner ==
  \A t \in Thread : answer[t].is = "Current" => answer[t].of.run = owner
=============================================================================
