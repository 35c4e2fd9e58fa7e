------------------------------ MODULE RoleProofs ------------------------------
(***************************************************************************)
(* What Role promises for any set of processes, onlookers and runs and any *)
(* set of calls that may fail.  Everything rests on RoleInvariant, which   *)
(* is inductive.                                                           *)
(***************************************************************************)
EXTENDS Role, TLAPS

LEMMA InitRoleInvariant == Init => RoleInvariant
BY RoleConstants
   DEF Init, RoleInvariant, TypeOK, Actor, Content, Record, SignedBy, Holding,
       Publishing, ProcessPC, OnlookerPC, Outcome, Seen, Occupancy, InOffice,
       HolderHasLock, DraftIsOwn, OfficeIsNamed, DropLeavesNothing, ProbeIsUnanswered

\* Steps of a process keep the variables in their types.
LEMMA ProcessTypes ==
  ASSUME TypeOK, NEW p \in Process, ProcessNext(p)
  PROVE  TypeOK'
<1> USE RoleConstants
    DEF TypeOK, Actor, Content, SignedBy, Goto, Returns, Publishing, Holding,
        ProcessPC, OnlookerPC, Outcome, files
<1>1. CASE OpenLock(p)
  <2>1. lockFile' \in BOOLEAN  BY <1>1, Zenon DEF OpenLock
  <2>2. QED  BY <1>1, <2>1 DEF OpenLock
<1>2. CASE TryLock(p)  BY <1>2 DEF TryLock
<1>3. CASE Republish(p)  BY <1>3 DEF Republish
<1>4. CASE CreateTemporary(p)  BY <1>4 DEF CreateTemporary, PublishFails
<1>5. CASE WriteTemporary(p)  BY <1>5 DEF WriteTemporary, PublishFails
<1>6. CASE Rename(p)  BY <1>6 DEF Rename, PublishFails
<1>7. CASE RemoveRecord(p)  BY <1>7 DEF RemoveRecord
<1>8. CASE CloseLock(p)  BY <1>8 DEF CloseLock, FreedBy
<1>9. CASE Crash(p)  BY <1>9 DEF Crash, FreedBy
<1>10. CASE ForeignLock(p)  BY <1>10 DEF ForeignLock
<1>11. QED
  BY <1>1, <1>2, <1>3, <1>4, <1>5, <1>6, <1>7, <1>8, <1>9, <1>10 DEF ProcessNext

\* Steps of an onlooker touch the lock, its own place and its own answer.
LEMMA OnlookerTypes ==
  ASSUME TypeOK, NEW o \in Onlooker, OnlookerNext(o)
  PROVE  TypeOK'
<1> USE RoleConstants
    DEF TypeOK, Actor, Content, Goto, Answers, OnlookerPC, Seen, Occupancy, files
<1>1. CASE ProbeOpen(o)  BY <1>1 DEF ProbeOpen
<1>2. CASE ProbeLock(o)  BY <1>2 DEF ProbeLock
<1>3. CASE ProbeClose(o)  BY <1>3 DEF ProbeClose, FreedBy
<1>4. CASE IdentifyHolder(o)  BY <1>4 DEF IdentifyHolder, Identified
<1>5. CASE CrashOnlooker(o)  BY <1>5 DEF CrashOnlooker, FreedBy
<1>6. QED  BY <1>1, <1>2, <1>3, <1>4, <1>5 DEF OnlookerNext

\* A step of a process keeps the invariant: the lock keeps all others out.
LEMMA ProcessKeepsInvariant ==
  ASSUME RoleInvariant, NEW p \in Process, ProcessNext(p)
  PROVE  RoleInvariant'
<1> USE RoleConstants
    DEF RoleInvariant, HolderHasLock, DraftIsOwn, OfficeIsNamed, DropLeavesNothing,
        ProbeIsUnanswered, InOffice, TypeOK, Actor, SignedBy, Goto, Publishing, Holding, files
<1>0. TypeOK'  BY ProcessTypes
<1>1. CASE OpenLock(p)  BY <1>0, <1>1 DEF OpenLock
<1>2. CASE TryLock(p)  BY <1>0, <1>2 DEF TryLock
<1>3. CASE Republish(p)  BY <1>0, <1>3 DEF Republish
<1>4. CASE CreateTemporary(p)  BY <1>0, <1>4 DEF CreateTemporary, PublishFails
<1>5. CASE WriteTemporary(p)  BY <1>0, <1>5 DEF WriteTemporary, PublishFails
<1>6. CASE Rename(p)  BY <1>0, <1>6 DEF Rename, PublishFails
<1>7. CASE RemoveRecord(p)  BY <1>0, <1>7 DEF RemoveRecord
<1>8. CASE CloseLock(p)  BY <1>0, <1>8 DEF CloseLock, FreedBy
<1>9. CASE Crash(p)  BY <1>0, <1>9 DEF Crash, FreedBy
<1>10. CASE ForeignLock(p)  BY <1>0, <1>10 DEF ForeignLock
<1>11. QED
  BY <1>1, <1>2, <1>3, <1>4, <1>5, <1>6, <1>7, <1>8, <1>9, <1>10 DEF ProcessNext

\* A step of an onlooker keeps it: a probe takes the lock only when it is free.
LEMMA OnlookerKeepsInvariant ==
  ASSUME RoleInvariant, NEW o \in Onlooker, OnlookerNext(o)
  PROVE  RoleInvariant'
<1> USE RoleConstants
    DEF RoleInvariant, HolderHasLock, DraftIsOwn, OfficeIsNamed, DropLeavesNothing,
        ProbeIsUnanswered, InOffice, TypeOK, Actor, Goto, Answers, Publishing, Holding, files
<1>0. TypeOK'  BY OnlookerTypes
<1>1. CASE ProbeOpen(o)  BY <1>0, <1>1 DEF ProbeOpen
<1>2. CASE ProbeLock(o)  BY <1>0, <1>2 DEF ProbeLock
<1>3. CASE ProbeClose(o)  BY <1>0, <1>3 DEF ProbeClose, FreedBy
<1>4. CASE IdentifyHolder(o)  BY <1>0, <1>4 DEF IdentifyHolder
<1>5. CASE CrashOnlooker(o)  BY <1>0, <1>5 DEF CrashOnlooker, FreedBy
<1>6. QED  BY <1>1, <1>2, <1>3, <1>4, <1>5 DEF OnlookerNext

\* The claim file, the lock and what tenants believe agree in every state.
THEOREM RoleIsConsistent == Spec => []RoleInvariant
<1>1. RoleInvariant /\ [Next]_vars => RoleInvariant'
  <2> SUFFICES ASSUME RoleInvariant, [Next]_vars  PROVE RoleInvariant'
    OBVIOUS
  <2>1. ASSUME NEW p \in Process, ProcessNext(p)  PROVE RoleInvariant'
    BY <2>1, ProcessKeepsInvariant
  <2>2. ASSUME NEW o \in Onlooker, OnlookerNext(o)  PROVE RoleInvariant'
    BY <2>2, OnlookerKeepsInvariant
  <2>3. CASE UNCHANGED vars
    BY <2>3
       DEF vars, files, RoleInvariant, TypeOK, HolderHasLock, DraftIsOwn,
           OfficeIsNamed, DropLeavesNothing, ProbeIsUnanswered, InOffice
  <2>4. QED  BY <2>1, <2>2, <2>3 DEF Next
<1>2. QED  BY <1>1, InitRoleInvariant, PTL DEF Spec

\* Every variable keeps its type.
THEOREM RoleTypes == Spec => []TypeOK
<1>1. RoleInvariant => TypeOK  BY DEF RoleInvariant
<1>2. QED  BY <1>1, RoleIsConsistent, PTL

\* A tenant in office holds the lock and is named by the claim file.
THEOREM TenantsAreIdentified == Spec => []TenantIdentified
<1>1. RoleInvariant => TenantIdentified
  BY DEF RoleInvariant, HolderHasLock, OfficeIsNamed, TenantIdentified, Holding
<1>2. QED  BY <1>1, RoleIsConsistent, PTL

-----------------------------------------------------------------------------
\* Only the holder of the lock changes the claim file, and only to a record of
\* its own or to nothing.
THEOREM HolderWrites == Spec => OnlyTheHolderWrites
<1> DEFINE Whole == \E p \in Process :
                      lock = p /\ recordFile' \in SignedBy(p) \cup {Absent}
<1>1. RoleInvariant /\ [Next]_vars => [Whole]_recordFile
  <2> SUFFICES ASSUME RoleInvariant, [Next]_vars, recordFile' # recordFile
               PROVE  Whole
    OBVIOUS
  <2> USE DEF RoleInvariant, HolderHasLock, DraftIsOwn, Holding, Publishing
  <2>1. ASSUME NEW p \in Process, ProcessNext(p)  PROVE Whole
    <3>1. CASE Rename(p)  BY <3>1 DEF Rename
    <3>2. CASE RemoveRecord(p)  BY <3>2 DEF RemoveRecord
    <3>3. QED
      BY <2>1, <3>1, <3>2
         DEF ProcessNext, OpenLock, TryLock, Republish, CreateTemporary,
             WriteTemporary, CloseLock, Crash, ForeignLock, files
  <2>2. ASSUME NEW o \in Onlooker  PROVE ~ OnlookerNext(o)
    BY DEF OnlookerNext, ProbeOpen, ProbeLock, ProbeClose, IdentifyHolder,
           CrashOnlooker, files
  <2>3. QED  BY <2>1, <2>2 DEF Next, vars, files
<1>2. QED  BY <1>1, RoleIsConsistent, PTL DEF Spec, OnlyTheHolderWrites

\* A Drop that runs to its end leaves no record when the lock comes free.
THEOREM DropsAreClean == Spec => ReleaseLeavesNothing
<1> DEFINE Clean == \A p \in Process :
                      pc[p] = "closing" /\ pc'[p] = "idle" /\ "unlink" \notin MayFail
                        => recordFile = Absent
<1>1. RoleInvariant => [Clean]_vars  BY DEF RoleInvariant, DropLeavesNothing
<1>2. QED  BY <1>1, RoleIsConsistent, PTL DEF ReleaseLeavesNothing

\* A probe that reads while a tenant is in office names that tenant.
THEOREM ReadsAreCurrent == Spec => ReadNamesTheTenant
<1> DEFINE Current ==
      \A o \in Onlooker, p \in Process :
        pc[o] = "held" /\ seen'[o].is # "None" /\ InOffice(p) /\ "read" \notin MayFail
          => seen'[o] = [is |-> "HeldBy", by |-> said[p]]
<1>1. RoleInvariant /\ [Next]_vars => [Current]_vars
  <2> SUFFICES ASSUME RoleInvariant, Next,
                      NEW o \in Onlooker, NEW p \in Process,
                      pc[o] = "held", seen'[o].is # "None", InOffice(p),
                      "read" \notin MayFail
               PROVE  seen'[o] = [is |-> "HeldBy", by |-> said[p]]
    OBVIOUS
  <2>0. pc[o] # "idle" /\ seen[o].is = "None" /\ o \notin Process
    BY RoleConstants DEF RoleInvariant, ProbeIsUnanswered
  <2>1. recordFile = said[p] /\ said[p] \in Record
    BY DEF RoleInvariant, OfficeIsNamed, SignedBy
  <2>2. ASSUME NEW q \in Process  PROVE ~ ProcessNext(q)
    BY <2>0
       DEF ProcessNext, OpenLock, TryLock, Republish, CreateTemporary,
           WriteTemporary, Rename, RemoveRecord, CloseLock, Crash, ForeignLock, files
  <2>3. ASSUME NEW w \in Onlooker, OnlookerNext(w)
        PROVE  seen'[o] = [is |-> "HeldBy", by |-> said[p]]
    <3> USE DEF Answers, RoleInvariant, TypeOK
    <3>1. CASE w # o
      BY <2>0, <2>3, <3>1
         DEF OnlookerNext, ProbeOpen, ProbeLock, ProbeClose, IdentifyHolder,
             CrashOnlooker
    <3>2. CASE w = o /\ IdentifyHolder(o)
      BY <2>1, <3>2 DEF IdentifyHolder, Identified
    <3>3. QED
      BY <2>0, <2>3, <3>1, <3>2
         DEF OnlookerNext, ProbeOpen, ProbeLock, ProbeClose, CrashOnlooker
  <2>4. QED  BY <2>2, <2>3 DEF Next
<1>2. QED  BY <1>1, RoleIsConsistent, PTL DEF Spec, ReadNamesTheTenant

-----------------------------------------------------------------------------
\* Whoever is in office is the one the refinement sees in the seat.
SeatFollowsOffice ==
  /\ \A p \in Process : InOffice(p) => seatTenant = p /\ seatName = recordFile
  /\ (\A p \in Process : ~ InOffice(p)) => seatTenant = Nobody /\ seatName = Absent

LEMMA SeatOfTenant == RoleInvariant => SeatFollowsOffice
<1>1. ASSUME RoleInvariant, NEW p \in Process, InOffice(p)
      PROVE  seatTenant = p /\ seatName = recordFile
  <2>1. \A q \in Process : InOffice(q) => q = p
    BY <1>1 DEF RoleInvariant, HolderHasLock, OfficeIsNamed, Holding
  <2>2. seatTenant = p  BY <1>1, <2>1 DEF seatTenant
  <2>3. p # Nobody  BY RoleConstants DEF Actor
  <2>4. QED  BY <2>2, <2>3 DEF seatName
<1>2. ASSUME \A p \in Process : ~ InOffice(p)
      PROVE  seatTenant = Nobody /\ seatName = Absent
  BY <1>2 DEF seatTenant, seatName
<1>3. QED  BY <1>1, <1>2 DEF SeatFollowsOffice

\* The same of the state a step leads to.
LEMMA NextSeat == RoleInvariant' => SeatFollowsOffice'
BY SeatOfTenant, PTL

\* Steps that change neither what tenants have said nor, while one of them is in
\* office, the claim file are invisible from the seat.
LEMMA SeatUnmoved ==
  ASSUME said' = said, recordFile' = recordFile
  PROVE  UNCHANGED <<seatTenant, seatName>>
BY DEF seatTenant, seatName, InOffice

\* The role, with its files, lock, failures and crashes, implements the seat.
THEOREM RoleImplementsSeat == Spec => ImplementsSeat
<1>1. Init => S!Init
  <2> SUFFICES ASSUME Init  PROVE S!Init
    OBVIOUS
  <2>1. \A p \in Process : ~ InOffice(p)  BY DEF Init, InOffice
  <2>2. QED  BY <2>1 DEF S!Init, seatTenant, seatName
<1>2. RoleInvariant /\ RoleInvariant' /\ [Next]_vars => [S!Next]_S!vars
  <2> SUFFICES ASSUME RoleInvariant, RoleInvariant', [Next]_vars
               PROVE  S!Next \/ UNCHANGED S!vars
    OBVIOUS
  <2> USE DEF S!Next, S!vars
  <2>1. SeatFollowsOffice /\ SeatFollowsOffice'  BY SeatOfTenant, NextSeat
  <2>2. ASSUME NEW p \in Process, lock = p, NEW q \in Process, InOffice(q)
        PROVE  q = p
    BY <2>2 DEF RoleInvariant, HolderHasLock, OfficeIsNamed, Holding
  <2>3. ASSUME NEW p \in Process, Rename(p)  PROVE S!Next \/ UNCHANGED S!vars
    <3>1. lock = p /\ draft[p] \in SignedBy(p) /\ temporary[p] = draft[p]
      BY <2>3
         DEF Rename, RoleInvariant, HolderHasLock, DraftIsOwn, Holding, Publishing
    <3>2. CASE said' = said /\ recordFile' = recordFile
      BY <3>2, SeatUnmoved
    <3>3. CASE said'[p] = draft[p] /\ recordFile' = temporary[p]
      <4>1. InOffice(p)'
        BY <3>1, <3>3, RoleConstants DEF InOffice, SignedBy
      <4>2. seatTenant' = p /\ seatName' \in SignedBy(p)
        BY <3>1, <3>3, <4>1, <2>1 DEF SeatFollowsOffice
      <4>3. CASE InOffice(p)
        BY <4>2, <4>3, <2>1 DEF SeatFollowsOffice, S!Correct, S!SignedBy, SignedBy
      <4>4. CASE ~ InOffice(p)
        BY <2>2, <3>1, <4>2, <4>4, <2>1 DEF SeatFollowsOffice, S!Take, S!SignedBy, SignedBy
      <4>5. QED  BY <4>3, <4>4
    <3>4. QED
      BY <2>3, <3>2, <3>3 DEF Rename, RoleInvariant, TypeOK
  <2>4. ASSUME NEW p \in Process,
               said' = [said EXCEPT ![p] = Absent],
               lock = p \/ recordFile' = recordFile
        PROVE  S!Next \/ UNCHANGED S!vars
    <3>1. said'[p] = Absent /\ \A q \in Process \ {p} : said'[q] = said[q]
      BY <2>4 DEF RoleInvariant, TypeOK
    <3>2. CASE InOffice(p)
      <4>1. \A q \in Process : InOffice(q) => q = p
        BY <2>2, <3>2 DEF RoleInvariant, HolderHasLock, OfficeIsNamed, Holding
      <4>2. \A q \in Process : ~ InOffice(q)'
        BY <3>1, <4>1 DEF InOffice
      <4>3. QED  BY <3>2, <4>2, <2>1 DEF SeatFollowsOffice, S!Leave
    <3>3. CASE ~ InOffice(p)
      <4>1. said' = said
        BY <2>4, <3>3 DEF InOffice, RoleInvariant, TypeOK
      <4>2. CASE recordFile' = recordFile  BY <4>1, <4>2, SeatUnmoved
      <4>3. CASE lock = p
        <5>1. \A q \in Process : ~ InOffice(q)  BY <2>2, <3>3, <4>3
        <5>2. \A q \in Process : ~ InOffice(q)'  BY <4>1, <5>1 DEF InOffice
        <5>3. QED  BY <5>1, <5>2, <2>1 DEF SeatFollowsOffice
      <4>4. QED  BY <2>4, <4>2, <4>3
    <3>4. QED  BY <3>2, <3>3
  <2>5. ASSUME NEW p \in Process, RemoveRecord(p) \/ Crash(p)
        PROVE  S!Next \/ UNCHANGED S!vars
    BY <2>4, <2>5 DEF RemoveRecord, Crash, RoleInvariant, HolderHasLock, Holding
  <2>6. ASSUME said' = said, recordFile' = recordFile  PROVE UNCHANGED S!vars
    BY <2>6, SeatUnmoved DEF S!vars
  <2>7. QED
    BY <2>3, <2>4, <2>5, <2>6
       DEF Next, ProcessNext, OnlookerNext, OpenLock, TryLock, Republish,
           CreateTemporary, WriteTemporary, CloseLock, ForeignLock, ProbeOpen,
           ProbeLock, ProbeClose, IdentifyHolder, CrashOnlooker, vars, files
<1>3. QED  BY <1>1, <1>2, RoleIsConsistent, PTL DEF Spec, ImplementsSeat, S!Spec
=============================================================================
