----------------------------- MODULE Succession -----------------------------
(***************************************************************************)
(* The parts put together as the crate's documentation does it (src/src/   *)
(* lib.rs): runs of an owner that start and end, each with a supervisor    *)
(* whose reports it answers with evict or evict_anonymous; helpers that    *)
(* claim the one role, ask the owner that answers whether they are still   *)
(* wanted, and exit; and tenants of an older install.  Every part is here  *)
(* as far as the others see it: calls that touch a file or another process *)
(* are steps, and time is only whether the grace period is over.           *)
(***************************************************************************)
EXTENDS Verdict, FiniteSets

CONSTANTS
  Run,        \* runs of the owner; each starts once
  Helper,     \* processes a supervisor may start
  Foreign,    \* processes that know nothing of claim records; each runs once
  Lookalike,  \* those of them that run from the helper's image
  Nobody,     \* the holder of a free lock
  Absent      \* no claim record; no run; nobody meant; not waiting

Process == Helper \cup Foreign
Record == [tenant : Helper, run : Run]

ASSUME SuccessionConstants ==
  /\ Helper \cap Foreign = {} /\ Process \cap Run = {}
  /\ Lookalike \subseteq Foreign
  /\ Nobody \notin Process \cup Run
  /\ Absent \notin Process \cup Run \cup Record \cup Nat

VARIABLES
  lock,     \* who has the role's lock: a process, or a run whose supervisor probes
  file,     \* the record in the claim file
  at,       \* at[p]: where process p is
  serves,   \* serves[h]: the run that started h, while h lives
  sup,      \* sup[r]: where the supervisor of run r is
  whom,     \* whom[r]: the child it waits for, or the writer of the record it read
  waiting,  \* waiting[r]: the age of its waiting_since, 0 or Grace
  lost      \* living children of runs that are up whose child.wait failed

role == <<lock, file>>
vars == <<role, at, serves, sup, whom, waiting, lost>>

Grace == 1

\* "locked" has the lock and not yet its record, "office" both; "leaving" is a
\* Drop after its remove_file.
HelperAt == {"gone", "started", "locked", "office", "giveback", "leaving"}
ForeignAt == {"gone", "started", "seated"}
Supervising == {"tick", "probing", "read", "spawn", "wait", "evict", "evictAnonymous",
                "sleep"}

\* Every variable holds what the code could hold there.
TypeOK ==
  /\ lock \in Process \cup Run \cup {Nobody}
  /\ file \in Record \cup {Absent}
  /\ at \in [Process -> HelperAt \cup ForeignAt]
  /\ \A h \in Helper : at[h] \in HelperAt
  /\ \A f \in Foreign : at[f] \in ForeignAt
  /\ serves \in [Helper -> Run \cup {Absent}]
  /\ sup \in [Run -> Supervising \cup {"unborn", "over"}]
  /\ whom \in [Run -> Helper \cup {Absent}]
  /\ waiting \in [Run -> {0, Grace, Absent}]
  /\ lost \subseteq Helper

Alive(p) == at[p] # "gone"
Up(r) == sup[r] \in Supervising
InOffice(h) == at[h] = "office"
\* Mutant of FreedBy: whoever closes the lock file frees the role.
FreedByAnyone(a) == Nobody

FreedBy(a) == IF lock = a THEN Nobody ELSE lock

\* No owner is up; some may have been, and a crash may have left a record of one of
\* them behind; an older install may be there.
Init ==
  /\ lock = Nobody /\ file \in Record \cup {Absent}
  /\ at \in [Process -> {"gone", "started"}] /\ \A h \in Helper : ~ Alive(h)
  /\ serves = [h \in Helper |-> Absent]
  /\ sup \in [Run -> {"unborn", "over"}]
  /\ file # Absent => sup[file.run] = "over"
  /\ whom = [r \in Run |-> Absent] /\ waiting = [r \in Run |-> Absent]
  /\ lost = {}

-----------------------------------------------------------------------------
(* Helpers: "The helper takes the role, publishes who it is, and re-checks *)
(* its owner on every handshake".                                          *)

Goes(p, place) == at' = [at EXCEPT ![p] = place]

\* A process ends: its lock goes with it, its record stays.
Ends(p) ==
  /\ Alive(p)
  /\ Goes(p, "gone") /\ lock' = FreedBy(p)
  /\ serves' = [h \in Helper |-> IF h = p THEN Absent ELSE serves[h]]
  /\ lost' = lost \ {p}
  /\ UNCHANGED file

\* Role::claim up to the lock; a helper that is answered Occupied exits.
Claim(h) ==
  /\ at[h] = "started"
  /\ \/ /\ lock = Nobody /\ lock' = h /\ Goes(h, "locked")
        /\ UNCHANGED <<file, serves, lost>>
     \/ lock # Nobody /\ Ends(h)
  /\ UNCHANGED <<sup, whom, waiting>>

\* Role::claim from the lock on: the record is in place ...
Publish(h) ==
  /\ at[h] = "locked"
  /\ file' = [tenant |-> h, run |-> serves[h]] /\ Goes(h, "office")
  /\ UNCHANGED <<lock, serves, sup, whom, waiting, lost>>

\* ... or cannot be written, and the Tenancy is dropped.
Unpublishable(h) ==
  /\ at[h] = "locked" /\ Goes(h, "giveback")
  /\ UNCHANGED <<role, serves, sup, whom, waiting, lost>>

\* The Tenancy is dropped: on claim's error path, or by a helper that was told
\* Superseded or ends for reasons of its own.  First the record goes ...
RemoveRecord(h) ==
  /\ at[h] \in {"office", "giveback"}
  /\ file' = Absent /\ Goes(h, "leaving")
  /\ UNCHANGED <<lock, serves, sup, whom, waiting, lost>>

\* ... then the lock, and the helper exits.
CloseLock(h) ==
  /\ at[h] = "leaving" /\ Ends(h)
  /\ UNCHANGED <<sup, whom, waiting>>

Crash(p) == Ends(p) /\ UNCHANGED <<sup, whom, waiting>>

\* An older install takes the lock and writes nothing.
ForeignLock(f) ==
  /\ f \in Foreign /\ at[f] = "started" /\ lock = Nobody
  /\ lock' = f /\ Goes(f, "seated")
  /\ UNCHANGED <<file, serves, sup, whom, waiting, lost>>

-----------------------------------------------------------------------------
(* Owners and their supervisors.                                           *)

Continue(r, place) == sup' = [sup EXCEPT ![r] = place]
Concerning(r, p) == whom' = [whom EXCEPT ![r] = p]

StartRun(r) ==
  /\ sup[r] = "unborn" /\ Continue(r, "tick")
  /\ UNCHANGED <<role, at, serves, whom, waiting, lost>>

\* The owner ends, and its supervisor with it; its helper lives on.
EndRun(r) ==
  /\ Up(r) /\ Continue(r, "over") /\ Concerning(r, Absent)
  /\ lock' = FreedBy(r) /\ waiting' = [waiting EXCEPT ![r] = Absent]
  /\ lost' = {h \in lost : serves[h] # r}
  /\ UNCHANGED <<file, at, serves>>

\* Supervisor::tick: occupancy tries the lock ...
Probe(r) ==
  /\ sup[r] = "tick"
  /\ IF lock = Nobody THEN lock' = r /\ Continue(r, "probing")
                      ELSE UNCHANGED lock /\ Continue(r, "read")
  /\ UNCHANGED <<file, at, serves, whom, waiting, lost>>

\* ... lets go of it again: Verdict::Start ...
Start(r) ==
  /\ sup[r] = "probing"
  /\ lock' = FreedBy(r) /\ Continue(r, "spawn")
  /\ waiting' = [waiting EXCEPT ![r] = Absent]
  /\ UNCHANGED <<file, at, serves, whom, lost>>

Occupancy == IF file = Absent THEN HeldAnonymously ELSE HeldBy(file.run)
Waited(r) == IF waiting[r] = Absent THEN 0 ELSE waiting[r]
Verdict(r) == Decide(Occupancy, r, Waited(r), Grace)

\* ... or reads the claim file, and carries the verdict out.
Read(r) ==
  /\ sup[r] = "read"
  /\ \/ /\ Verdict(r) = "Wait" /\ Continue(r, "sleep")
        /\ waiting' = [waiting EXCEPT ![r] = Waited(r)] /\ UNCHANGED whom
     \/ /\ Verdict(r) = "Evict" /\ Continue(r, "evict")
        /\ Concerning(r, file.tenant) /\ UNCHANGED waiting
     \/ /\ Verdict(r) = "EvictAnonymous" /\ Continue(r, "evictAnonymous")
        /\ UNCHANGED <<whom, waiting>>
  /\ UNCHANGED <<role, at, serves, lost>>

\* A process is used again only when nothing means the last one by that name.
Unmeant(h) == (file # Absent => file.tenant # h) /\ \A r \in Run : whom[r] # h

\* Mutant of SpawnHelper: the helper is not waited for.
SpawnDetached(r) ==
  /\ sup[r] = "spawn"
  /\ \E h \in Helper :
       /\ ~ Alive(h) /\ Unmeant(h)
       /\ Goes(h, "started") /\ serves' = [serves EXCEPT ![h] = r]
  /\ Continue(r, "sleep")
  /\ UNCHANGED <<role, whom, waiting, lost>>

\* start: a helper that is told its run.
SpawnHelper(r) ==
  /\ sup[r] = "spawn"
  /\ \E h \in Helper :
       /\ ~ Alive(h) /\ Unmeant(h)
       /\ Goes(h, "started") /\ serves' = [serves EXCEPT ![h] = r]
       /\ Concerning(r, h)
  /\ Continue(r, "wait")
  /\ UNCHANGED <<role, waiting, lost>>

SpawnFails(r) ==
  /\ sup[r] = "spawn" /\ Continue(r, "sleep")
  /\ UNCHANGED <<role, at, serves, whom, waiting, lost>>

Exited(r) ==
  /\ sup[r] = "wait" /\ ~ Alive(whom[r])
  /\ Continue(r, "sleep") /\ Concerning(r, Absent)
  /\ UNCHANGED <<role, at, serves, waiting, lost>>

\* child.wait fails, and the child is nobody's.
WaitFails(r) ==
  /\ sup[r] = "wait"
  /\ Continue(r, "sleep") /\ Concerning(r, Absent)
  /\ lost' = IF Alive(whom[r]) THEN lost \cup {whom[r]} ELSE lost
  /\ UNCHANGED <<role, at, serves, waiting>>

\* The owner answers Superseded with evict: Left, or AlreadyGone.
Evict(r) ==
  /\ sup[r] = "evict"
  /\ \/ Ends(whom[r])
     \/ ~ Alive(whom[r]) /\ UNCHANGED <<role, at, serves, lost>>
  /\ Continue(r, "sleep") /\ Concerning(r, Absent)
  /\ UNCHANGED waiting

\* Mutant of Candidates: every process that was ever started counts.
CandidatesEver == Helper \cup Lookalike

\* running_from the helper's image.
Candidates == {p \in Helper \cup Lookalike : Alive(p)}

\* The owner answers SupersededAnonymously with evict_anonymous: Left, or
\* NoCandidate or Ambiguous.
EvictAnonymous(r) ==
  /\ sup[r] = "evictAnonymous"
  /\ \/ \E p \in Candidates : Candidates = {p} /\ Ends(p)
     \/ Cardinality(Candidates) # 1 /\ UNCHANGED <<role, at, serves, lost>>
  /\ Continue(r, "sleep")
  /\ UNCHANGED <<whom, waiting>>

Wake(r) ==
  /\ sup[r] = "sleep" /\ Continue(r, "tick")
  /\ UNCHANGED <<role, at, serves, whom, waiting, lost>>

\* The grace period ends.
Elapse(r) ==
  /\ waiting[r] = 0 /\ waiting' = [waiting EXCEPT ![r] = Grace]
  /\ UNCHANGED <<role, at, serves, sup, whom, lost>>

-----------------------------------------------------------------------------
\* What goes on by itself: a claim and a Drop that have begun, and the loop.
HelperStep(h) ==
  Claim(h) \/ Publish(h) \/ CloseLock(h) \/ (at[h] = "giveback" /\ RemoveRecord(h))

Tick(r) ==
  \/ Probe(r) \/ Start(r) \/ Read(r) \/ Exited(r) \/ Evict(r) \/ EvictAnonymous(r)
  \/ Wake(r)

Next ==
  \/ \E h \in Helper : HelperStep(h) \/ Unpublishable(h) \/ RemoveRecord(h)
  \/ \E p \in Process : Crash(p)
  \/ \E f \in Foreign : ForeignLock(f)
  \/ \E r \in Run :
       \/ StartRun(r) \/ EndRun(r) \/ Tick(r) \/ Elapse(r)
       \/ SpawnHelper(r) \/ SpawnFails(r) \/ WaitFails(r)

Spec == Init /\ [][Next]_vars

\* Luck does not fail for ever: a probe succeeds, and a helper can be started, finds the
\* lock free, and lives to publish its record, if each of these is tried time and again.
Locks(r) == \E h \in Helper : serves[h] = r /\ lock = Nobody /\ Claim(h)
Publishes(r) == \E h \in Helper : serves[h] = r /\ Publish(h)

FairSpec ==
  /\ Spec
  /\ \A h \in Helper : WF_vars(HelperStep(h))
  /\ \A r \in Run :
       /\ WF_vars(Tick(r)) /\ WF_vars(Elapse(r))
       /\ SF_vars(SpawnHelper(r)) /\ SF_vars(Locks(r)) /\ SF_vars(Publishes(r))

-----------------------------------------------------------------------------
(* Properties.                                                             *)

\* What the lock and the claim file mean to those who use them: whoever is past
\* try_lock has the lock, and a helper in office is the one the file names.
LockIsHeld ==
  /\ \A h \in Helper : at[h] \in HelperAt \ {"gone", "started"} => lock = h
  /\ \A f \in Foreign : at[f] = "seated" => lock = f
  /\ \A r \in Run : sup[r] = "probing" => lock = r

OfficeIsNamed == \A h \in Helper : InOffice(h) => file = [tenant |-> h, run |-> serves[h]]

\* Every living helper serves the run that started it, and so says its record.
HelpersServe ==
  /\ \A h \in Helper : (Alive(h) <=> serves[h] # Absent) /\ (h \in lost => Alive(h))
  /\ \A r \in Run, h \in Helper : serves[h] = r => sup[r] # "unborn"
  /\ file # Absent => serves[file.tenant] \in {file.run, Absent}

\* A supervisor has one helper at a time: while it lives, and unless child.wait
\* failed, start does not return, so no other helper of that run is about.
ChildIsWaitedFor ==
  \A r \in Run, h \in Helper :
    Up(r) /\ serves[h] = r /\ h \notin lost => sup[r] = "wait" /\ whom[r] = h

\* Whom a supervisor means to evict by its record served another run.
TargetIsForeign ==
  \A r \in Run :
    /\ sup[r] = "wait" => whom[r] \in Helper
    /\ sup[r] = "evict" => whom[r] \in Helper /\ serves[whom[r]] # r

\* All of it together: what every step of every process preserves.
SuccessionInvariant ==
  /\ TypeOK /\ LockIsHeld /\ OfficeIsNamed /\ HelpersServe
  /\ ChildIsWaitedFor /\ TargetIsForeign

Evicting(r) == sup[r] \in {"evict", "evictAnonymous"}

\* "A tenant of the supervisor's own run is never evicted" (src/verdict.rs:51), nor
\* is a helper of its own that has not claimed yet taken for the anonymous tenant:
\* whatever happened between the look at the role and the signal, whom it ends
\* serves another run, or no run, or is a child that child.wait gave up.
EvictionIsJust ==
  [][\A r \in Run, h \in Helper :
       Evicting(r) /\ sup'[r] = "sleep" /\ Alive(h) /\ at'[h] = "gone"
         => serves[h] # r \/ h \in lost]_vars

seatTenant == IF \E h \in Helper : InOffice(h)
                THEN CHOOSE h \in Helper : InOffice(h) ELSE Nobody
seatName == IF \E h \in Helper : InOffice(h) THEN file ELSE Absent
S == INSTANCE Seat WITH Process <- Helper, tenant <- seatTenant, name <- seatName

\* However many owners, supervisors and evictors there are around the role, its
\* helpers follow one another in office as they do in the abstract seat.
ImplementsSeat == S!Spec

\* "More than one match means the holder cannot be told from its siblings" (src/
\* eviction.rs:126): others of an older install run from the helper's image too, and
\* as none of them has to end, every evict_anonymous may be Ambiguous.
HasSibling(f) == \E g \in Lookalike \ {f} : Alive(g)

\* A foreign tenant that cannot be evicted: over a claim file that still names somebody,
\* or from another image, or with a sibling.
Wedged == lock \in Foreign /\ (file # Absent \/ lock \notin Lookalike \/ HasSibling(lock))

Served(r) == \E h \in Helper : InOffice(h) /\ serves[h] = r
OnlyUp(r) == Up(r) /\ \A q \in Run \ {r} : ~ Up(q)
Unserved == \E r \in Run : OnlyUp(r) /\ ~ Served(r)

\* The handover: the one run of the owner that is up gets a helper of its own into
\* office, whoever was in the way, unless a foreign tenant wedges the role.
SuccessorIsServed == Unserved ~> (~ Unserved \/ Wedged)

\* A tenant of an older install that runs alone, or has outlived its siblings, is told from
\* the helpers that come and go around it, and made to leave as long as an owner is
\* up, when no claim file misnames it.
AnonymousLeaves ==
  (lock \in Foreign /\ ~ Wedged /\ \E r \in Run : Up(r))
    ~> (lock \notin Foreign \/ \A r \in Run : ~ Up(r))

(* What a test says and the code does not keep.                            *)

\* "The leftover must not read as a tenant - otherwise every crash would wedge the
\* role permanently" (tests/role.rs:136): the same with any claim file.
LeftoverWedgesNothing ==
  \A r \in Run, f \in Lookalike : (lock = f /\ Up(r)) ~> (lock # f \/ ~ Up(r))
=============================================================================
