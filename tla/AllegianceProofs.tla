-------------------------- MODULE AllegianceProofs --------------------------
(***************************************************************************)
(* What an Allegiance promises to any number of threads.                   *)
(***************************************************************************)
EXTENDS Allegiance, TLAPS

\* The cell is set at most once, and a call that saw it unset began before that.
THEOREM OwnerIsStable == Spec => []AllegianceInvariant
<1> USE AllegianceConstants
    DEF AllegianceInvariant, TypeOK, OwnerStays, ToldOwnerStays, DialectsAgree, Owner,
        Identity, Standing, Unasked
<1>1. Init => AllegianceInvariant
  BY DEF Init, TurnedAwayKnowTheOwner
<1>2. AllegianceInvariant /\ [Next]_vars => AllegianceInvariant'
  <2> SUFFICES ASSUME AllegianceInvariant, [Next]_vars
               PROVE  AllegianceInvariant'
    OBVIOUS
  <2>1. ASSUME NEW t \in Thread, NEW identity \in Identity, Observe(t, identity)
        PROVE  AllegianceInvariant'
    <3>1. TypeOK'
      <4>1. owner' \in Owner /\ began' \in [Thread -> Owner]  BY <2>1 DEF Observe
      <4>2. pc' \in [Thread -> {"idle", "get", "set"}]
        BY <2>1 DEF Observe, Returns
      <4>3. shown' \in [Thread -> Identity]  BY <2>1 DEF Observe
      <4>4. answer' \in [Thread -> [is : Standing, of : Identity] \cup {Unasked}]
        BY <2>1 DEF Observe, Returns
      <4>5. sworn' \in Owner  BY <2>1 DEF Observe
      <4>6. QED  BY <4>1, <4>2, <4>3, <4>4, <4>5, Zenon
    <3>2. /\ owner' = owner /\ sworn' = sworn
          /\ \A u \in Thread \ {t} :
               pc'[u] = pc[u] /\ shown'[u] = shown[u] /\ began'[u] = began[u]
      BY <2>1 DEF Observe, Returns
    <3>3. /\ began'[t] = owner /\ pc'[t] # "set"
          /\ pc'[t] # "idle" => shown'[t].compat = Ours
      BY <2>1 DEF Observe, Returns
    <3>4. OwnerStays'  BY <3>2, <3>3
    <3>5. DialectsAgree'  BY <3>2, <3>3
    <3>6. ToldOwnerStays'  BY <3>2, <3>3
    <3>7. /\ \A u \in Thread \ {t} : answer'[u] = answer[u]
          /\ \/ answer'[t] = answer[t]
             \/ answer'[t].is = "Incompatible" /\ answer'[t].of.compat # Ours
      <4>1. CASE identity.compat # Ours  BY <2>1, <4>1 DEF Observe, Returns
      <4>2. CASE identity.compat = Ours  BY <2>1, <4>2 DEF Observe
      <4>3. QED  BY <4>1, <4>2
    <3>8. TurnedAwayKnowTheOwner'
      BY <3>2, <3>3, <3>7 DEF TurnedAwayKnowTheOwner
    <3>9. QED  BY <3>1, <3>4, <3>5, <3>6, <3>8, Zenon
  <2>2. ASSUME NEW t \in Thread, Get(t)  PROVE AllegianceInvariant'
    <3>1. pc' \in [Thread -> {"idle", "get", "set"}]
      BY <2>2 DEF Get, Returns
    <3>2. answer' \in [Thread -> [is : Standing, of : Identity] \cup {Unasked}]
      BY <2>2 DEF Get, Returns
    <3>3. UNCHANGED <<owner, shown, began, sworn>>  BY <2>2 DEF Get
    <3>4. TypeOK'  BY <3>1, <3>2, <3>3
    <3>5. \A u \in Thread \ {t} : pc'[u] = pc[u]  BY <2>2 DEF Get, Returns
    <3>6. pc[t] = "get" /\ (pc'[t] = "set" => owner = Unsworn) /\ pc'[t] \in {"idle", "set"}
      BY <2>2 DEF Get, Returns
    <3>7. /\ \A u \in Thread \ {t} : answer'[u] = answer[u]
          /\ \/ pc'[t] = "set" /\ owner = Unsworn /\ answer'[t] = answer[t]
             \/ pc'[t] = "idle" /\ answer'[t].is = "Current"
             \/ /\ pc'[t] = "idle" /\ answer'[t].is = "NewRun"
                /\ owner \notin {Unsworn, answer'[t].of.run}
      BY <2>2 DEF Get, Returns
    <3>8. TurnedAwayKnowTheOwner'
      BY <3>3, <3>5, <3>7 DEF TurnedAwayKnowTheOwner
    <3>9. QED  BY <3>3, <3>4, <3>5, <3>6, <3>8
  <2>3. ASSUME NEW t \in Thread, Set(t)  PROVE AllegianceInvariant'
    <3>1. pc' \in [Thread -> {"idle", "get", "set"}]
      BY <2>3 DEF Set, Returns
    <3>2. answer' \in [Thread -> [is : Standing, of : Identity] \cup {Unasked}]
      BY <2>3 DEF Set, Returns
    <3>3. owner' \in Owner /\ UNCHANGED <<shown, began, sworn>>  BY <2>3 DEF Set
    <3>4. TypeOK'  BY <3>1, <3>2, <3>3
    <3>5. pc'[t] = "idle" /\ \A u \in Thread \ {t} : pc'[u] = pc[u]
      BY <2>3 DEF Set, Returns
    <3>6. owner # Unsworn => owner' = owner  BY <2>3 DEF Set
    <3>7. answer'[t].is = "Current" /\ \A u \in Thread \ {t} : answer'[u] = answer[u]
      BY <2>3 DEF Set, Returns
    <3>8. TurnedAwayKnowTheOwner'
      BY <3>5, <3>6, <3>7 DEF TurnedAwayKnowTheOwner
    <3>9. QED  BY <3>3, <3>4, <3>5, <3>6, <3>8
  <2>4. CASE UNCHANGED vars  BY <2>4 DEF vars, TurnedAwayKnowTheOwner
  <2>5. QED  BY <2>1, <2>2, <2>3, <2>4 DEF Next
<1>3. QED  BY <1>1, <1>2, PTL DEF Spec

\* A call that begins once an owner is remembered answers Current of it alone.
THEOREM LaterCallsAgreeAlways == Spec => LaterCallsAgree
<1> DEFINE Agree ==
      \A t \in Thread :
        pc[t] # "idle" /\ pc'[t] = "idle" /\ answer'[t].is = "Current"
          => began[t] \in {Unsworn, answer'[t].of.run}
<1>1. AllegianceInvariant /\ [Next]_vars => [Agree]_vars
  <2> SUFFICES ASSUME AllegianceInvariant, Next,
                      NEW t \in Thread, pc[t] # "idle", pc'[t] = "idle",
                      answer'[t].is = "Current"
               PROVE  began[t] \in {Unsworn, answer'[t].of.run}
    OBVIOUS
  <2> USE DEF AllegianceInvariant, TypeOK, OwnerStays
  <2>1. Get(t) \/ Set(t)
    BY DEF Next, Observe, Get, Set, Returns
  <2>2. CASE Get(t)  BY <2>2 DEF Get, Returns
  <2>3. CASE Set(t)  BY <2>3 DEF Set, Returns
  <2>4. QED  BY <2>1, <2>2, <2>3
<1>2. QED  BY <1>1, OwnerIsStable, PTL DEF Spec, LaterCallsAgree

\* A thread that was turned away from an owner is turned away from it when it asks again.
THEOREM TurnedAwayStayAway == Spec => TurnedAwayForGood
<1> DEFINE Away ==
      \A t \in Thread :
        answer[t].is \in {"Incompatible", "NewRun"}
          => answer'[t].is # "Current" \/ answer'[t].of # answer[t].of
<1>1. AllegianceInvariant /\ [Next]_vars => [Away]_vars
  <2> SUFFICES ASSUME AllegianceInvariant, Next,
                      NEW t \in Thread, answer[t].is \in {"Incompatible", "NewRun"},
                      answer'[t].is = "Current"
               PROVE  answer'[t].of # answer[t].of
    OBVIOUS
  <2> USE DEF AllegianceInvariant, TypeOK, DialectsAgree, TurnedAwayKnowTheOwner
  <2>1. Get(t) \/ Set(t)
    BY DEF Next, Observe, Get, Set, Returns
  <2>2. CASE Get(t)
    <3>1. answer'[t].of = shown[t] /\ owner = shown[t].run /\ pc[t] = "get"
      BY <2>2 DEF Get, Returns
    <3>2. QED  BY <3>1
  <2>3. CASE Set(t)
    <3>1. answer'[t].of = shown[t] /\ pc[t] = "set"
      BY <2>3 DEF Set, Returns
    <3>2. QED  BY <3>1
  <2>4. QED  BY <2>1, <2>2, <2>3
<1>2. QED  BY <1>1, OwnerIsStable, PTL DEF Spec, TurnedAwayForGood

-----------------------------------------------------------------------------
\* Told its owner up front, an Allegiance implements the oath: each observe is one
\* indivisible step.
THEOREM ToldAllegianceIsAnOath == Spec => ImplementsOath
<1>1. Init => O!Init
  BY AllegianceConstants DEF Init, Owner, told, O!Init, Unasked
<1>2. AllegianceInvariant /\ [Next]_vars => [O!Next]_O!vars
  <2> SUFFICES ASSUME AllegianceInvariant, [Next]_vars
               PROVE  O!Next \/ UNCHANGED O!vars
    OBVIOUS
  <2> USE DEF AllegianceInvariant, TypeOK, ToldOwnerStays, DialectsAgree, told
  <2>1. sworn' = sworn  BY DEF Next, Observe, Get, Set, vars
  <2>2. CASE sworn = Unsworn  BY <2>1, <2>2 DEF O!vars
  <2>3. CASE sworn # Unsworn
    <3> USE DEF Returns, Identity, O!Next, O!vars, O!Observe, O!Judged, O!Identity
    <3>1. ASSUME NEW t \in Thread, NEW identity \in Identity, Observe(t, identity)
          PROVE  O!Next \/ UNCHANGED O!vars
      BY <2>1, <2>3, <3>1 DEF Observe
    <3>2. ASSUME NEW t \in Thread, Get(t)  PROVE O!Next \/ UNCHANGED O!vars
      BY <2>1, <2>3, <3>2 DEF Get
    <3>3. ASSUME NEW t \in Thread  PROVE ~ Set(t)
      BY <2>3 DEF Set
    <3>4. CASE UNCHANGED vars  BY <2>1, <3>4 DEF vars
    <3>5. QED  BY <3>1, <3>2, <3>3, <3>4 DEF Next
  <2>4. QED  BY <2>2, <2>3
<1>3. QED  BY <1>1, <1>2, OwnerIsStable, PTL DEF Spec, ImplementsOath, O!Spec
=============================================================================
