-------------------------- MODULE SupervisorProofs --------------------------
(***************************************************************************)
(* What a Supervisor promises for any tenants, runs and settings.          *)
(***************************************************************************)
EXTENDS Supervisor, Loops

\* What tenants do is no concern of the supervisor's own state.
LEMMA TenantsKeepInvariant ==
  ASSUME SupervisorInvariant, NEW t \in Tenant, TenantStep(t)
  PROVE  SupervisorInvariant'
<1> USE SupervisorConstants
    DEF SupervisorInvariant, TypeOK, WaitIsRecent, RestIsLong, Runs, supervisor, history
<1>1. CASE Arrive(t)  BY <1>1 DEF Arrive
<1>2. CASE Claim(t)  BY <1>2 DEF Claim
<1>3. CASE Publish(t)  BY <1>3 DEF Publish
<1>4. CASE Release(t)  BY <1>4 DEF Release
<1>5. CASE Die(t)  BY <1>5 DEF Die
<1>6. QED  BY <1>1, <1>2, <1>3, <1>4, <1>5 DEF TenantStep

\* A verdict is carried out within the types, and without ageing the wait.
LEMMA CarryKeepsInvariant ==
  ASSUME SupervisorInvariant, pc \in {"tick", "read"}, NEW verdict, Carry(verdict),
         UNCHANGED <<tenants, child, delay, sinceEnd, failures>>
  PROVE  SupervisorInvariant'
BY SupervisorConstants
   DEF SupervisorInvariant, TypeOK, WaitIsRecent, RestIsLong, Runs, Carry, Waited,
       SleepFor, tenants, Event

\* The end of a start leaves a backoff of at least the base delay.
LEMMA BackOffKeepsInvariant ==
  ASSUME SupervisorInvariant, NEW e \in {"Exited", "SpawnFailed"}, BackOff(e)
  PROVE  SupervisorInvariant'
BY SupervisorConstants
   DEF SupervisorInvariant, TypeOK, WaitIsRecent, RestIsLong, Runs, BackOff,
       SleepFor, NextDelay, Least, tenants, Event

\* Time ages all clocks alike.
LEMMA TickKeepsInvariant ==
  ASSUME SupervisorInvariant, Tick
  PROVE  SupervisorInvariant'
BY SupervisorConstants
   DEF SupervisorInvariant, TypeOK, WaitIsRecent, RestIsLong, Runs, Tick, Later, Least

\* No wait is older than the last start, no backoff shorter than the base.
THEOREM SupervisorIsConsistent == Spec => []SupervisorInvariant
<1> USE SupervisorConstants
<1>1. Init => SupervisorInvariant
  BY DEF Init, SupervisorInvariant, TypeOK, WaitIsRecent, RestIsLong, Runs, Event
<1>2. SupervisorInvariant /\ [Next]_vars => SupervisorInvariant'
  <2> SUFFICES ASSUME SupervisorInvariant, [Next]_vars  PROVE SupervisorInvariant'
    OBVIOUS
  <2>1. ASSUME NEW t \in Tenant, TenantStep(t)  PROVE SupervisorInvariant'
    BY <2>1, TenantsKeepInvariant
  <2>2. CASE Probe
    <3>1. CASE Carry(Verdict(Free))
      BY <2>2, <3>1, CarryKeepsInvariant DEF Probe
    <3>2. CASE pc' = "read" /\ event' = "None" /\ UNCHANGED <<waiting, left, ranFor, sinceStart>>
      BY <2>2, <3>2
         DEF Probe, SupervisorInvariant, TypeOK, WaitIsRecent, RestIsLong, tenants, Event
    <3>3. QED  BY <2>2, <3>1, <3>2 DEF Probe
  <2>3. CASE Read  BY <2>3, CarryKeepsInvariant DEF Read
  <2>4. CASE SpawnHelper
    BY <2>4
       DEF SpawnHelper, SupervisorInvariant, TypeOK, WaitIsRecent, RestIsLong, Runs,
           Event, history
  <2>5. CASE SpawnFails \/ HelperExited \/ WaitFails
    BY <2>5, BackOffKeepsInvariant DEF SpawnFails, HelperExited, WaitFails
  <2>6. CASE Wake
    BY <2>6
       DEF Wake, SupervisorInvariant, TypeOK, WaitIsRecent, RestIsLong, tenants, history
  <2>7. CASE Tick  BY <2>7, TickKeepsInvariant
  <2>8. CASE UNCHANGED vars
    BY <2>8
       DEF vars, tenants, supervisor, history, SupervisorInvariant, TypeOK,
           WaitIsRecent, RestIsLong
  <2>9. QED
    BY <2>1, <2>2, <2>3, <2>4, <2>5, <2>6, <2>7, <2>8 DEF Next, Loop
<1>3. QED  BY <1>1, <1>2, PTL DEF Spec

\* Nobody is reported as unidentifiable within a grace period of a start.
THEOREM GraceFollowsStart == Spec => GraceSinceStart
<1> DEFINE Patient == Reports("SupersededAnonymously") => sinceStart >= Grace
<1>1. SupervisorInvariant /\ [Next]_vars => [Patient]_vars
  <2> SUFFICES ASSUME SupervisorInvariant, Next, Reports("SupersededAnonymously")
               PROVE  sinceStart >= Grace
    OBVIOUS
  <2>1. Read
    BY DEF Reports, Next, TenantStep, Arrive, Claim, Publish, Release, Die, Loop,
           Probe, SpawnHelper, SpawnFails, HelperExited, WaitFails, Wake, Tick, supervisor
  <2>2. \E occupancy \in {HeldAnonymously, HeldBy(file)} :
          Verdict(occupancy) = "EvictAnonymous"
    BY <2>1 DEF Read, Carry, Reports
  <2>3. Waited >= Grace
    BY <2>2, SupervisorConstants
       DEF Verdict, Decide, HeldAnonymously, HeldBy, Waited, SupervisorInvariant, TypeOK
  <2>4. QED
    BY <2>3, SupervisorConstants DEF Waited, SupervisorInvariant, TypeOK, WaitIsRecent
<1>2. QED  BY <1>1, SupervisorIsConsistent, PTL DEF Spec, GraceSinceStart

\* Two starts are at least the base delay apart.
THEOREM StartsKeepTheirDistance == Spec => StartsAreSpaced
<1> DEFINE Rested == Starts /\ Base <= Ceiling => sinceEnd >= Base
<1>1. SupervisorInvariant => [Rested]_vars
  BY DEF SupervisorInvariant, RestIsLong, Starts
<1>2. QED  BY <1>1, SupervisorIsConsistent, PTL DEF StartsAreSpaced

\* The doublings are defined, and outgrow any ceiling unless the base is zero.
LEMMA Doublings ==
  /\ doubled \in [Nat -> Nat]
  /\ doubled[0] = Base
  /\ \A n \in Nat : doubled[n + 1] = 2 * doubled[n]
  /\ \A n \in Nat : IF Base = 0 THEN doubled[n] = 0 ELSE doubled[n] > n
<1> USE SupervisorConstants
<1>1. PICK f \in [Nat -> Nat] : f[0] = Base /\ \A n \in Nat : f[n + 1] = 2 * f[n]
  <2> DEFINE turn == [n \in Nat |-> [d \in Nat |-> 2 * d]]
  <2>1. \A n \in Nat, d \in Nat : turn[n][d] \in Nat
    OBVIOUS
  <2>2. \A n \in Nat, d \in Nat : turn[n + 1][d] = 2 * d
    OBVIOUS
  <2>3. Base \in Nat
    OBVIOUS
  <2> HIDE DEF turn
  <2>4. PICK f : f \in Course(Nat, Base, turn)
    <3>1. Course(Nat, Base, turn) # {}
      BY ONLY <2>1, <2>3, CourseExists
    <3> QED BY <3>1
  <2>5. f \in [Nat -> Nat] /\ f[0] = Base /\ \A n \in Nat : f[n + 1] = turn[n + 1][f[n]]
    BY <2>4 DEF Course
  <2>6. \A n \in Nat : f[n + 1] = 2 * f[n]
    BY <2>2, <2>5
  <2> QED BY <2>5, <2>6
<1>2. f = [n \in Nat |-> IF n = 0 THEN Base ELSE 2 * f[n - 1]]
  <2>1. ASSUME NEW n \in Nat
        PROVE  f[n] = IF n = 0 THEN Base ELSE 2 * f[n - 1]
    BY <1>1
  <2> QED BY <2>1
<1>3. doubled = [n \in Nat |-> IF n = 0 THEN Base ELSE 2 * doubled[n - 1]]
  BY <1>2 DEF doubled
<1>4. doubled[0] = Base /\ \A n \in Nat : doubled[n + 1] = 2 * doubled[n]
  BY <1>3
<1>5. \A n \in Nat : doubled[n] \in Nat
  <2> DEFINE D == {n \in Nat : doubled[n] \in Nat}
  <2>1. 0 \in D /\ \A n \in Nat : n \in D => n + 1 \in D
    BY <1>4
  <2> HIDE DEF D
  <2>2. Nat \subseteq D
    BY <2>1, InductionOnTurns
  <2> QED BY <2>2 DEF D
<1>6. doubled \in [Nat -> Nat]
  BY <1>3, <1>5
<1>7. \A n \in Nat : IF Base = 0 THEN doubled[n] = 0 ELSE doubled[n] > n
  <2> DEFINE D == {n \in Nat : IF Base = 0 THEN doubled[n] = 0 ELSE doubled[n] > n}
  <2>1. 0 \in D /\ \A n \in Nat : n \in D => n + 1 \in D
    BY <1>4, <1>6
  <2> HIDE DEF D
  <2>2. Nat \subseteq D
    BY <2>1, InductionOnTurns
  <2> QED BY <2>2 DEF D
<1> QED BY <1>4, <1>6, <1>7

\* After however many short runs in a row the next delay is the base doubled as
\* often, or the ceiling: Restart::next_delay (src/supervision.rs:40).
THEOREM DelayGrowsExponentially == Spec => []DelayIsExponential
<1>1. Init => DelayIsExponential
  BY SupervisorConstants, Doublings DEF Init, DelayIsExponential, Least
<1>2. SupervisorInvariant /\ DelayIsExponential /\ [Next]_vars => DelayIsExponential'
  <2> SUFFICES ASSUME SupervisorInvariant, DelayIsExponential, [Next]_vars,
                      Base <= Ceiling
               PROVE  delay' = Least(doubled[failures'], Ceiling)
    BY DEF DelayIsExponential
  <2>1. ASSUME NEW e, BackOff(e)
        PROVE  delay' = Least(doubled[failures'], Ceiling)
    <3>1. delay = Least(doubled[failures], Ceiling) /\ failures \in 0 .. Ceiling
      BY DEF DelayIsExponential, SupervisorInvariant, TypeOK
    <3>2. CASE ranFor >= HealthyAfter
      BY <2>1, <3>2, SupervisorConstants, Doublings DEF BackOff, NextDelay, Least
    <3>3. CASE ~ (ranFor >= HealthyAfter)
      <4>1. delay' = Least(2 * delay, Ceiling) /\ failures' = Least(failures + 1, Ceiling)
        BY <2>1, <3>3 DEF BackOff, NextDelay
      <4>2. 2 * delay >= Ceiling \/ 2 * delay = doubled[failures + 1]
        BY <3>1, SupervisorConstants, Doublings DEF Least
      <4> QED
        BY <3>1, <4>1, <4>2, SupervisorConstants, Doublings DEF Least
    <3> QED BY <3>2, <3>3
  <2>2. ASSUME UNCHANGED <<delay, failures>>
        PROVE  delay' = Least(doubled[failures'], Ceiling)
    BY <2>2 DEF DelayIsExponential
  <2>3. ASSUME NEW t \in Tenant, TenantStep(t)
        PROVE  UNCHANGED <<delay, failures>>
    BY <2>3
       DEF TenantStep, Arrive, Claim, Publish, Release, Die, supervisor, history
  <2>4. CASE Probe \/ Read \/ SpawnHelper \/ Wake \/ Tick \/ UNCHANGED vars
    BY <2>2, <2>4
       DEF Probe, Read, SpawnHelper, Wake, Tick, vars, supervisor, history
  <2>5. CASE SpawnFails \/ HelperExited \/ WaitFails
    BY <2>1, <2>5 DEF SpawnFails, HelperExited, WaitFails
  <2> QED BY <2>2, <2>3, <2>4, <2>5 DEF Next, Loop
<1> QED BY <1>1, <1>2, SupervisorIsConsistent, PTL DEF Spec
=============================================================================
