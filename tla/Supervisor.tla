----------------------------- MODULE Supervisor -----------------------------
(***************************************************************************)
(* One supervisor (src/src/supervision.rs) in front of a role whose        *)
(* tenants come, identify themselves or not, leave and crash as they like. *)
(* The role is seen through what Role::occupancy tells of it: who has the  *)
(* lock, and what the claim file says.  Time is counted in ticks, and each *)
(* clock stops at the last value that anything compares it with.           *)
(***************************************************************************)
EXTENDS Verdict

CONSTANTS
  Tenant,        \* processes that may fill the role
  Nobody,        \* the tenant of a free role
  Mine,          \* the run the supervisor belongs to
  Other,         \* runs that are over, or belong to somebody else
  Absent,        \* no readable claim record; no clock; no process
  Anonymous,     \* the run of a tenant that publishes no record
  Grace, Poll,   \* Supervisor's settings ...
  Base, Ceiling, HealthyAfter  \* ... and those of its Restart

ASSUME SupervisorConstants ==
  /\ Nobody \notin Tenant
  /\ Mine \notin Other
  /\ Absent \notin {Mine, Anonymous} \cup Other
  /\ Absent \notin Nat /\ Absent \notin Tenant
  /\ Anonymous \notin {Mine} \cup Other
  /\ Grace \in Nat /\ Poll \in Nat \ {0}
  /\ Base \in Nat /\ Ceiling \in Nat /\ HealthyAfter \in Nat

VARIABLES
  run,       \* run[t]: the run t serves, Anonymous, or Absent when t is not running
  seat,      \* who has the role's lock
  file,      \* the run of the record in the claim file, or Absent
  pc,        \* "tick", "read" (it was held), "spawn", "wait" or "sleep"
  child,     \* the helper start is waiting for
  waiting,   \* the age of waiting_since, up to Grace, or Absent
  delay,     \* Supervisor::delay
  left,      \* how much of its sleep is left
  ranFor,    \* how long start has taken so far, up to HealthyAfter
  event,     \* the last report of this cycle that was not BackingOff
  seated,    \* how long the present tenant has had the lock, up to Grace
  sinceStart,  \* time since the last start began, up to Grace
  sinceEnd,    \* time since the last start let go of its helper, up to Base
  failures     \* runs in a row that ended before HealthyAfter, up to Ceiling

tenants == <<run, seat, file, seated>>
supervisor == <<pc, child, waiting, delay, left, ranFor, event>>
history == <<sinceStart, sinceEnd, failures>>
vars == <<tenants, supervisor, history>>

Least(a, b) == IF a < b THEN a ELSE b
Runs == {Mine} \cup Other
Event == {"None", "Occupied", "Superseded", "SupersededAnonymously", "Started",
          "Exited", "SpawnFailed"}

\* Every variable holds what the code could hold there.
TypeOK ==
  /\ run \in [Tenant -> Runs \cup {Anonymous, Absent}]
  /\ seat \in Tenant \cup {Nobody}
  /\ seat # Nobody => run[seat] # Absent
  /\ file \in Runs \cup {Absent}
  /\ pc \in {"tick", "read", "spawn", "wait", "sleep"}
  /\ child \in Tenant \cup {Absent} /\ (pc = "wait" <=> child # Absent)
  /\ waiting \in (0..Grace) \cup {Absent}
  /\ delay \in Nat /\ (delay <= Base \/ delay <= Ceiling)
  /\ left \in Nat /\ (left <= delay \/ left <= Poll)
  /\ ranFor \in 0..HealthyAfter
  /\ event \in Event
  /\ seated \in 0..Grace /\ sinceStart \in 0..Grace /\ sinceEnd \in 0..Base
  /\ failures \in 0..Ceiling

Init ==
  /\ run = [t \in Tenant |-> Absent] /\ seat = Nobody /\ seated = 0
  /\ file \in Other \cup {Absent}
  /\ pc = "tick" /\ child = Absent /\ waiting = Absent
  /\ delay = Base /\ left = 0 /\ ranFor = 0 /\ event = "None"
  /\ sinceStart = 0 /\ sinceEnd = Base /\ failures = 0

-----------------------------------------------------------------------------
(* The tenants.                                                            *)

\* One that this supervisor did not start: a leftover of another run, or of an
\* install that knows nothing of records.
Arrive(t) ==
  /\ run[t] = Absent
  /\ \E r \in Other \cup {Anonymous} : run' = [run EXCEPT ![t] = r]
  /\ UNCHANGED <<seat, file, seated, supervisor, history>>

\* Role::claim, lock first.
Claim(t) ==
  /\ run[t] # Absent /\ seat = Nobody
  /\ seat' = t /\ seated' = 0
  /\ UNCHANGED <<run, file, supervisor, history>>

Publish(t) ==
  /\ seat = t /\ run[t] \in Runs
  /\ file' = run[t]
  /\ UNCHANGED <<run, seat, seated, supervisor, history>>

\* The Tenancy is dropped.
Release(t) ==
  /\ seat = t /\ run[t] \in Runs
  /\ seat' = Nobody /\ file' = Absent /\ seated' = 0
  /\ UNCHANGED <<run, supervisor, history>>

\* A process ends, and with it its lock; a record it published stays.
Die(t) ==
  /\ run[t] # Absent
  /\ run' = [run EXCEPT ![t] = Absent]
  /\ IF seat = t THEN seat' = Nobody /\ seated' = 0 ELSE UNCHANGED <<seat, seated>>
  /\ UNCHANGED <<file, supervisor, history>>

-----------------------------------------------------------------------------
(* Supervisor::tick.  A probe that fails changes nothing and is tried      *)
(* again: that is a stuttering step.                                       *)

SleepFor(d) == pc' = "sleep" /\ left' = d
Waited == IF waiting = Absent THEN 0 ELSE waiting

\* Mutant of Carry: finding the role free does not end the wait.
CarryWithoutReset(verdict) ==
  \/ /\ verdict = "Start" /\ pc' = "spawn" /\ ranFor' = 0 /\ sinceStart' = 0
     /\ UNCHANGED <<left, waiting, event>>
  \/ /\ verdict = "Wait" /\ event' = "Occupied" /\ SleepFor(Poll)
     /\ waiting' = IF waiting = Absent THEN 0 ELSE waiting
     /\ UNCHANGED <<ranFor, sinceStart>>
  \/ /\ verdict = "Evict" /\ event' = "Superseded" /\ SleepFor(Poll)
     /\ UNCHANGED <<waiting, ranFor, sinceStart>>
  \/ /\ verdict = "EvictAnonymous" /\ event' = "SupersededAnonymously"
     /\ SleepFor(Poll) /\ UNCHANGED <<waiting, ranFor, sinceStart>>

\* Mutant of Carry: every Wait begins the wait anew (insert, not get_or_insert).
CarryWaitsAnew(verdict) ==
  \/ /\ verdict = "Start" /\ pc' = "spawn" /\ ranFor' = 0 /\ sinceStart' = 0
     /\ waiting' = Absent /\ UNCHANGED <<left, event>>
  \/ /\ verdict = "Wait" /\ event' = "Occupied" /\ SleepFor(Poll)
     /\ waiting' = 0 /\ UNCHANGED <<ranFor, sinceStart>>
  \/ /\ verdict = "Evict" /\ event' = "Superseded" /\ SleepFor(Poll)
     /\ UNCHANGED <<waiting, ranFor, sinceStart>>
  \/ /\ verdict = "EvictAnonymous" /\ event' = "SupersededAnonymously"
     /\ SleepFor(Poll) /\ UNCHANGED <<waiting, ranFor, sinceStart>>

\* What tick does about a verdict, up to the call of spawn.
Carry(verdict) ==
  \/ /\ verdict = "Start"
     /\ waiting' = Absent /\ pc' = "spawn" /\ ranFor' = 0 /\ sinceStart' = 0
     /\ UNCHANGED <<left, event>>
  \/ /\ verdict = "Wait"
     /\ waiting' = Waited
     /\ event' = "Occupied" /\ SleepFor(Poll)
     /\ UNCHANGED <<ranFor, sinceStart>>
  \/ /\ verdict = "Evict"
     /\ event' = "Superseded" /\ SleepFor(Poll)
     /\ UNCHANGED <<waiting, ranFor, sinceStart>>
  \/ /\ verdict = "EvictAnonymous"
     /\ event' = "SupersededAnonymously" /\ SleepFor(Poll)
     /\ UNCHANGED <<waiting, ranFor, sinceStart>>

Verdict(occupancy) == Decide(occupancy, Mine, Waited, Grace)

\* Role::occupancy tests the lock ...
Probe ==
  /\ pc = "tick"
  /\ IF seat = Nobody
       THEN Carry(Verdict(Free))
       ELSE pc' = "read" /\ event' = "None"
            /\ UNCHANGED <<waiting, left, ranFor, sinceStart>>
  /\ UNCHANGED <<tenants, child, delay, sinceEnd, failures>>

\* ... and, when it is held, goes on to read the claim file.
Read ==
  /\ pc = "read"
  /\ Carry(Verdict(IF file = Absent THEN HeldAnonymously ELSE HeldBy(file)))
  /\ UNCHANGED <<tenants, child, delay, sinceEnd, failures>>

\* Mutant of NextDelay: the delay is halved where it should double.
NextDelayHalved(previous, lasted) ==
  IF lasted >= HealthyAfter THEN Base ELSE previous \div 2

\* Restart::next_delay.
NextDelay(previous, lasted) ==
  IF lasted >= HealthyAfter THEN Base ELSE Least(2 * previous, Ceiling)

\* The end of start.
BackOff(e) ==
  /\ event' = e /\ child' = Absent
  /\ delay' = NextDelay(delay, ranFor) /\ SleepFor(delay')
  /\ failures' = IF ranFor >= HealthyAfter THEN 0 ELSE Least(failures + 1, Ceiling)
  /\ sinceEnd' = 0
  /\ UNCHANGED <<tenants, waiting, ranFor, sinceStart>>

\* spawn, the caller's closure, starts a helper of this run ...
SpawnHelper ==
  /\ pc = "spawn"
  /\ \E t \in Tenant :
       /\ run[t] = Absent
       /\ run' = [run EXCEPT ![t] = Mine] /\ child' = t
  /\ pc' = "wait" /\ event' = "Started"
  /\ UNCHANGED <<seat, file, seated, waiting, delay, left, ranFor, history>>

\* ... or cannot.
SpawnFails == pc = "spawn" /\ BackOff("SpawnFailed")

HelperExited == pc = "wait" /\ run[child] = Absent /\ BackOff("Exited")

\* child.wait fails: the helper may well go on.
WaitFails == pc = "wait" /\ BackOff("SpawnFailed")

Wake ==
  /\ pc = "sleep" /\ left = 0
  /\ pc' = "tick"
  /\ UNCHANGED <<tenants, child, waiting, delay, left, ranFor, event, history>>

-----------------------------------------------------------------------------
Later(clock, bound) == Least(clock + 1, bound)

\* Time passes, whatever the supervisor is doing; a sleep may last too long.
Tick ==
  /\ waiting' = IF waiting = Absent THEN Absent ELSE Later(waiting, Grace)
  /\ left' = IF left = 0 THEN 0 ELSE left - 1
  /\ ranFor' = IF pc \in {"spawn", "wait"} THEN Later(ranFor, HealthyAfter) ELSE ranFor
  /\ seated' = IF seat = Nobody THEN 0 ELSE Later(seated, Grace)
  /\ sinceStart' = Later(sinceStart, Grace)
  /\ sinceEnd' = Later(sinceEnd, Base)
  /\ UNCHANGED <<run, seat, file, pc, child, delay, event, failures>>

TenantStep(t) == Arrive(t) \/ Claim(t) \/ Publish(t) \/ Release(t) \/ Die(t)

\* The caller's loop: "loop { supervisor.tick(&mut spawn, &mut report) }".
Loop == Probe \/ Read \/ SpawnHelper \/ SpawnFails \/ HelperExited \/ Wake

Next == (\E t \in Tenant : TenantStep(t)) \/ Loop \/ WaitFails \/ Tick

Spec == Init /\ [][Next]_vars

\* The loop goes round and time passes; tenants do as they please.  A probe that fails is
\* a step that changes nothing, so it is supposed not to fail for ever.
FairSpec == Spec /\ WF_vars(Loop) /\ WF_vars(Tick)

-----------------------------------------------------------------------------
(* Properties.                                                             *)

Reports(e) == pc = "read" /\ pc' = "sleep" /\ event' = e
Starts == pc = "tick" /\ pc' = "spawn"

\* A full grace period lies between a start of a helper and the next report that an
\* anonymous tenant is in the way, whoever held the role in between.  That is all of it:
\* the tenant itself may have come a moment ago (GraceIsTheTenants).
GraceSinceStart ==
  [][Reports("SupersededAnonymously") => sinceStart >= Grace]_vars

\* However starts fail and helpers die, two of them are a base delay apart.
StartsAreSpaced ==
  [][Starts /\ Base <= Ceiling => sinceEnd >= Base]_vars

\* The strengthening for these two: a wait is never older than the last start, and
\* what is left of a backoff makes up for what has passed since its start ended.
WaitIsRecent == waiting # Absent => waiting <= sinceStart

RestIsLong ==
  Base <= Ceiling =>
    /\ delay >= Base
    /\ pc \in {"tick", "read"} => sinceEnd >= Base
    /\ pc = "sleep" => left + sinceEnd >= Base

\* All of it together: what tick, start, the tenants and the clock preserve.
SupervisorInvariant == TypeOK /\ WaitIsRecent /\ RestIsLong

\* Base * 2^n, whatever the ceiling.
doubled[n \in Nat] == IF n = 0 THEN Base ELSE 2 * doubled[n - 1]

\* The delay is the base, doubled for each short run in a row, up to the ceiling:
\* doubling step by step under the ceiling loses and gains nothing.
DelayIsExponential ==
  Base <= Ceiling => delay = Least(doubled[failures], Ceiling)

\* A tenant that stays anonymous in the role is reported, time and again, unless
\* the supervisor is busy with a helper of its own.
AnonymousIsReported ==
  \A t \in Tenant :
    (seat = t /\ file = Absent)
      ~> (seat # t \/ file # Absent \/ pc = "wait" \/ event = "SupersededAnonymously")

\* A role that stays free gets a helper started, or at least tried.
FreeRoleIsFilled == (seat = Nobody) ~> (seat # Nobody \/ pc \in {"spawn", "wait"})

(* What a comment says and the code does not keep.                         *)

\* "How long an unidentified tenant is left alone" (src/supervision.rs:129): no
\* tenant is reported before it has had the role for the grace period.
GraceIsTheTenants ==
  [][Reports("SupersededAnonymously") => seated >= Grace]_vars
=============================================================================
