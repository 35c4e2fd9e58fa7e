-------------------------- MODULE SuccessionProofs --------------------------
(***************************************************************************)
(* What holds of any number of owner runs, helpers and older installs      *)
(* around one role.                                                        *)
(***************************************************************************)
EXTENDS Succession, TLAPS

\* Only a readable record of another run is answered with Evict.
LEMMA EvictNamesAnother ==
  ASSUME TypeOK, NEW r \in Run, Verdict(r) = "Evict"
  PROVE  file \in Record /\ file.run # r
BY SuccessionConstants
   DEF TypeOK, Verdict, Decide, Occupancy, HeldBy, HeldAnonymously

\* The lock, the claim file, the helpers and the supervisors agree: nothing any of
\* them does, however the steps interleave, breaks SuccessionInvariant.
THEOREM SuccessionIsConsistent == Spec => []SuccessionInvariant
<1> USE SuccessionConstants
    DEF Process, Record, HelperAt, ForeignAt, Supervising, Alive, InOffice, Up
<1>1. Init => SuccessionInvariant
  BY DEF Init, SuccessionInvariant, TypeOK, LockIsHeld, OfficeIsNamed, HelpersServe,
         ChildIsWaitedFor, TargetIsForeign
<1>2. SuccessionInvariant /\ [Next]_vars => SuccessionInvariant'
  <2> SUFFICES ASSUME SuccessionInvariant, [Next]_vars  PROVE SuccessionInvariant'
    OBVIOUS
  <2> USE DEF SuccessionInvariant, TypeOK, Goes, Continue, Concerning, FreedBy, role
  <2>1. ASSUME NEW h \in Helper, Claim(h)  PROVE SuccessionInvariant'
    <3>1. TypeOK'  BY <2>1 DEF Claim, Ends
    <3>2. LockIsHeld'  BY <2>1 DEF Claim, Ends, LockIsHeld
    <3>3. OfficeIsNamed'  BY <2>1 DEF Claim, Ends, OfficeIsNamed
    <3>4. HelpersServe'  BY <2>1 DEF Claim, Ends, HelpersServe
    <3>5. ChildIsWaitedFor'  BY <2>1 DEF Claim, Ends, ChildIsWaitedFor, HelpersServe
    <3>6. TargetIsForeign'  BY <2>1 DEF Claim, Ends, TargetIsForeign, HelpersServe
    <3>7. QED  BY <3>1, <3>2, <3>3, <3>4, <3>5, <3>6
  <2>2. ASSUME NEW h \in Helper, Publish(h)  PROVE SuccessionInvariant'
    <3>1. TypeOK'  BY <2>2 DEF Publish, HelpersServe
    <3>2. LockIsHeld'  BY <2>2 DEF Publish, LockIsHeld, HelpersServe
    <3>3. OfficeIsNamed'
      BY <2>2 DEF Publish, OfficeIsNamed, LockIsHeld, HelpersServe
    <3>4. HelpersServe'  BY <2>2 DEF Publish, HelpersServe, LockIsHeld
    <3>5. ChildIsWaitedFor'
      BY <2>2 DEF Publish, ChildIsWaitedFor, LockIsHeld, HelpersServe
    <3>6. TargetIsForeign'
      BY <2>2 DEF Publish, TargetIsForeign, LockIsHeld, HelpersServe
    <3>7. QED  BY <3>1, <3>2, <3>3, <3>4, <3>5, <3>6
  <2>3. ASSUME NEW h \in Helper, CloseLock(h)  PROVE SuccessionInvariant'
    <3>1. TypeOK'  BY <2>3 DEF CloseLock, Ends
    <3>2. LockIsHeld'  BY <2>3 DEF CloseLock, Ends, LockIsHeld
    <3>3. OfficeIsNamed'  BY <2>3 DEF CloseLock, Ends, OfficeIsNamed
    <3>4. HelpersServe'  BY <2>3 DEF CloseLock, Ends, HelpersServe
    <3>5. ChildIsWaitedFor'
      BY <2>3 DEF CloseLock, Ends, ChildIsWaitedFor, HelpersServe
    <3>6. TargetIsForeign'
      BY <2>3 DEF CloseLock, Ends, TargetIsForeign, HelpersServe
    <3>7. QED  BY <3>1, <3>2, <3>3, <3>4, <3>5, <3>6
  <2>4. ASSUME NEW h \in Helper, Unpublishable(h)  PROVE SuccessionInvariant'
    <3>1. TypeOK'  BY <2>4 DEF Unpublishable
    <3>2. LockIsHeld'  BY <2>4 DEF Unpublishable, LockIsHeld
    <3>3. OfficeIsNamed'  BY <2>4 DEF Unpublishable, OfficeIsNamed
    <3>4. HelpersServe'  BY <2>4 DEF Unpublishable, HelpersServe
    <3>5. ChildIsWaitedFor'
      BY <2>4 DEF Unpublishable, ChildIsWaitedFor, HelpersServe
    <3>6. TargetIsForeign'  BY <2>4 DEF Unpublishable, TargetIsForeign, HelpersServe
    <3>7. QED  BY <3>1, <3>2, <3>3, <3>4, <3>5, <3>6
  <2>5. ASSUME NEW h \in Helper, RemoveRecord(h)  PROVE SuccessionInvariant'
    <3>1. TypeOK'  BY <2>5 DEF RemoveRecord
    <3>2. LockIsHeld'  BY <2>5 DEF RemoveRecord, LockIsHeld
    <3>3. OfficeIsNamed'  BY <2>5 DEF RemoveRecord, OfficeIsNamed, LockIsHeld
    <3>4. HelpersServe'  BY <2>5 DEF RemoveRecord, HelpersServe, LockIsHeld
    <3>5. ChildIsWaitedFor'
      BY <2>5 DEF RemoveRecord, ChildIsWaitedFor, LockIsHeld, HelpersServe
    <3>6. TargetIsForeign'
      BY <2>5 DEF RemoveRecord, TargetIsForeign, LockIsHeld, HelpersServe
    <3>7. QED  BY <3>1, <3>2, <3>3, <3>4, <3>5, <3>6
  <2>6. ASSUME NEW p \in Process, Crash(p)  PROVE SuccessionInvariant'
    <3>1. TypeOK'  BY <2>6 DEF Crash, Ends
    <3>2. LockIsHeld'  BY <2>6 DEF Crash, Ends, LockIsHeld
    <3>3. OfficeIsNamed'  BY <2>6 DEF Crash, Ends, OfficeIsNamed
    <3>4. HelpersServe'  BY <2>6 DEF Crash, Ends, HelpersServe
    <3>5. ChildIsWaitedFor'  BY <2>6 DEF Crash, Ends, ChildIsWaitedFor, HelpersServe
    <3>6. TargetIsForeign'  BY <2>6 DEF Crash, Ends, TargetIsForeign, HelpersServe
    <3>7. QED  BY <3>1, <3>2, <3>3, <3>4, <3>5, <3>6
  <2>7. ASSUME NEW f \in Foreign, ForeignLock(f)  PROVE SuccessionInvariant'
    <3>1. TypeOK'  BY <2>7 DEF ForeignLock
    <3>2. LockIsHeld'  BY <2>7 DEF ForeignLock, LockIsHeld
    <3>3. OfficeIsNamed'  BY <2>7 DEF ForeignLock, OfficeIsNamed
    <3>4. HelpersServe'  BY <2>7 DEF ForeignLock, HelpersServe
    <3>5. ChildIsWaitedFor'  BY <2>7 DEF ForeignLock, ChildIsWaitedFor, HelpersServe
    <3>6. TargetIsForeign'  BY <2>7 DEF ForeignLock, TargetIsForeign, HelpersServe
    <3>7. QED  BY <3>1, <3>2, <3>3, <3>4, <3>5, <3>6
  <2>8. ASSUME NEW r \in Run, StartRun(r)  PROVE SuccessionInvariant'
    <3>1. TypeOK'  BY <2>8 DEF StartRun
    <3>2. LockIsHeld'  BY <2>8 DEF StartRun, LockIsHeld
    <3>3. OfficeIsNamed'  BY <2>8 DEF StartRun, OfficeIsNamed
    <3>4. HelpersServe'  BY <2>8 DEF StartRun, HelpersServe
    <3>5. ChildIsWaitedFor'  BY <2>8 DEF StartRun, ChildIsWaitedFor, HelpersServe
    <3>6. TargetIsForeign'  BY <2>8 DEF StartRun, TargetIsForeign, HelpersServe
    <3>7. QED  BY <3>1, <3>2, <3>3, <3>4, <3>5, <3>6
  <2>9. ASSUME NEW r \in Run, EndRun(r)  PROVE SuccessionInvariant'
    <3>1. TypeOK'  BY <2>9 DEF EndRun
    <3>2. LockIsHeld'  BY <2>9 DEF EndRun, LockIsHeld
    <3>3. OfficeIsNamed'  BY <2>9 DEF EndRun, OfficeIsNamed
    <3>4. HelpersServe'  BY <2>9 DEF EndRun, HelpersServe
    <3>5. ChildIsWaitedFor'  BY <2>9 DEF EndRun, ChildIsWaitedFor, HelpersServe
    <3>6. TargetIsForeign'  BY <2>9 DEF EndRun, TargetIsForeign, HelpersServe
    <3>7. QED  BY <3>1, <3>2, <3>3, <3>4, <3>5, <3>6
  <2>10. ASSUME NEW r \in Run, Probe(r)  PROVE SuccessionInvariant'
    <3>1. TypeOK'  BY <2>10 DEF Probe
    <3>2. LockIsHeld'  BY <2>10 DEF Probe, LockIsHeld
    <3>3. OfficeIsNamed'  BY <2>10 DEF Probe, OfficeIsNamed
    <3>4. HelpersServe'  BY <2>10 DEF Probe, HelpersServe
    <3>5. ChildIsWaitedFor'  BY <2>10 DEF Probe, ChildIsWaitedFor, HelpersServe
    <3>6. TargetIsForeign'  BY <2>10 DEF Probe, TargetIsForeign, HelpersServe
    <3>7. QED  BY <3>1, <3>2, <3>3, <3>4, <3>5, <3>6
  <2>11. ASSUME NEW r \in Run, Start(r)  PROVE SuccessionInvariant'
    <3>1. TypeOK'  BY <2>11 DEF Start
    <3>2. LockIsHeld'  BY <2>11 DEF Start, LockIsHeld
    <3>3. OfficeIsNamed'  BY <2>11 DEF Start, OfficeIsNamed
    <3>4. HelpersServe'  BY <2>11 DEF Start, HelpersServe
    <3>5. ChildIsWaitedFor'  BY <2>11 DEF Start, ChildIsWaitedFor, HelpersServe
    <3>6. TargetIsForeign'  BY <2>11 DEF Start, TargetIsForeign, HelpersServe
    <3>7. QED  BY <3>1, <3>2, <3>3, <3>4, <3>5, <3>6
  <2>12. ASSUME NEW r \in Run, Read(r)  PROVE SuccessionInvariant'
    <3>1. TypeOK'  BY <2>12, EvictNamesAnother DEF Read, Waited, Grace, HelpersServe
    <3>2. LockIsHeld'  BY <2>12 DEF Read, Waited, Grace, LockIsHeld, HelpersServe
    <3>3. OfficeIsNamed'
      BY <2>12 DEF Read, Waited, Grace, OfficeIsNamed, HelpersServe
    <3>4. HelpersServe'  BY <2>12 DEF Read, Waited, Grace, HelpersServe
    <3>5. ChildIsWaitedFor'
      BY <2>12 DEF Read, Waited, Grace, ChildIsWaitedFor, HelpersServe
    <3>6. TargetIsForeign'
      BY <2>12, EvictNamesAnother DEF Read, Waited, Grace, TargetIsForeign, HelpersServe
    <3>7. QED  BY <3>1, <3>2, <3>3, <3>4, <3>5, <3>6
  <2>13. ASSUME NEW r \in Run, Exited(r)  PROVE SuccessionInvariant'
    <3>1. TypeOK'  BY <2>13 DEF Exited
    <3>2. LockIsHeld'  BY <2>13 DEF Exited, LockIsHeld
    <3>3. OfficeIsNamed'  BY <2>13 DEF Exited, OfficeIsNamed
    <3>4. HelpersServe'  BY <2>13 DEF Exited, HelpersServe
    <3>5. ChildIsWaitedFor'  BY <2>13 DEF Exited, ChildIsWaitedFor, HelpersServe
    <3>6. TargetIsForeign'  BY <2>13 DEF Exited, TargetIsForeign, HelpersServe
    <3>7. QED  BY <3>1, <3>2, <3>3, <3>4, <3>5, <3>6
  <2>14. ASSUME NEW r \in Run, Evict(r)  PROVE SuccessionInvariant'
    <3>1. TypeOK'  BY <2>14 DEF Evict, Ends
    <3>2. LockIsHeld'  BY <2>14 DEF Evict, Ends, LockIsHeld
    <3>3. OfficeIsNamed'  BY <2>14 DEF Evict, Ends, OfficeIsNamed
    <3>4. HelpersServe'  BY <2>14 DEF Evict, Ends, HelpersServe
    <3>5. ChildIsWaitedFor'  BY <2>14 DEF Evict, Ends, ChildIsWaitedFor, HelpersServe
    <3>6. TargetIsForeign'  BY <2>14 DEF Evict, Ends, TargetIsForeign, HelpersServe
    <3>7. QED  BY <3>1, <3>2, <3>3, <3>4, <3>5, <3>6
  <2>15. ASSUME NEW r \in Run, EvictAnonymous(r)  PROVE SuccessionInvariant'
    <3>1. TypeOK'  BY <2>15 DEF EvictAnonymous, Ends, Candidates
    <3>2. LockIsHeld'  BY <2>15 DEF EvictAnonymous, Ends, Candidates, LockIsHeld
    <3>3. OfficeIsNamed'
      BY <2>15 DEF EvictAnonymous, Ends, Candidates, OfficeIsNamed
    <3>4. HelpersServe'  BY <2>15 DEF EvictAnonymous, Ends, Candidates, HelpersServe
    <3>5. ChildIsWaitedFor'
      BY <2>15 DEF EvictAnonymous, Ends, Candidates, ChildIsWaitedFor, HelpersServe
    <3>6. TargetIsForeign'
      BY <2>15 DEF EvictAnonymous, Ends, Candidates, TargetIsForeign, HelpersServe
    <3>7. QED  BY <3>1, <3>2, <3>3, <3>4, <3>5, <3>6
  <2>16. ASSUME NEW r \in Run, Wake(r)  PROVE SuccessionInvariant'
    <3>1. TypeOK'  BY <2>16 DEF Wake
    <3>2. LockIsHeld'  BY <2>16 DEF Wake, LockIsHeld
    <3>3. OfficeIsNamed'  BY <2>16 DEF Wake, OfficeIsNamed
    <3>4. HelpersServe'  BY <2>16 DEF Wake, HelpersServe
    <3>5. ChildIsWaitedFor'  BY <2>16 DEF Wake, ChildIsWaitedFor, HelpersServe
    <3>6. TargetIsForeign'  BY <2>16 DEF Wake, TargetIsForeign, HelpersServe
    <3>7. QED  BY <3>1, <3>2, <3>3, <3>4, <3>5, <3>6
  <2>17. ASSUME NEW r \in Run, Elapse(r)  PROVE SuccessionInvariant'
    <3>1. TypeOK'  BY <2>17 DEF Elapse, Grace
    <3>2. LockIsHeld'  BY <2>17 DEF Elapse, Grace, LockIsHeld
    <3>3. OfficeIsNamed'  BY <2>17 DEF Elapse, Grace, OfficeIsNamed
    <3>4. HelpersServe'  BY <2>17 DEF Elapse, Grace, HelpersServe
    <3>5. ChildIsWaitedFor'
      BY <2>17 DEF Elapse, Grace, ChildIsWaitedFor, HelpersServe
    <3>6. TargetIsForeign'  BY <2>17 DEF Elapse, Grace, TargetIsForeign, HelpersServe
    <3>7. QED  BY <3>1, <3>2, <3>3, <3>4, <3>5, <3>6
  <2>18. ASSUME NEW r \in Run, SpawnHelper(r)  PROVE SuccessionInvariant'
    <3>1. TypeOK'  BY <2>18 DEF SpawnHelper, Unmeant
    <3>2. LockIsHeld'  BY <2>18 DEF SpawnHelper, Unmeant, LockIsHeld
    <3>3. OfficeIsNamed'  BY <2>18 DEF SpawnHelper, Unmeant, OfficeIsNamed
    <3>4. HelpersServe'  BY <2>18 DEF SpawnHelper, Unmeant, HelpersServe
    <3>5. ChildIsWaitedFor'
      BY <2>18 DEF SpawnHelper, Unmeant, ChildIsWaitedFor, HelpersServe
    <3>6. TargetIsForeign'
      BY <2>18 DEF SpawnHelper, Unmeant, TargetIsForeign, HelpersServe
    <3>7. QED  BY <3>1, <3>2, <3>3, <3>4, <3>5, <3>6
  <2>19. ASSUME NEW r \in Run, SpawnFails(r)  PROVE SuccessionInvariant'
    <3>1. TypeOK'  BY <2>19 DEF SpawnFails
    <3>2. LockIsHeld'  BY <2>19 DEF SpawnFails, LockIsHeld
    <3>3. OfficeIsNamed'  BY <2>19 DEF SpawnFails, OfficeIsNamed
    <3>4. HelpersServe'  BY <2>19 DEF SpawnFails, HelpersServe
    <3>5. ChildIsWaitedFor'  BY <2>19 DEF SpawnFails, ChildIsWaitedFor, HelpersServe
    <3>6. TargetIsForeign'  BY <2>19 DEF SpawnFails, TargetIsForeign, HelpersServe
    <3>7. QED  BY <3>1, <3>2, <3>3, <3>4, <3>5, <3>6
  <2>20. ASSUME NEW r \in Run, WaitFails(r)  PROVE SuccessionInvariant'
    <3>1. TypeOK'  BY <2>20 DEF WaitFails, TargetIsForeign
    <3>2. LockIsHeld'  BY <2>20 DEF WaitFails, LockIsHeld
    <3>3. OfficeIsNamed'  BY <2>20 DEF WaitFails, OfficeIsNamed
    <3>4. HelpersServe'  BY <2>20 DEF WaitFails, HelpersServe
    <3>5. ChildIsWaitedFor'  BY <2>20 DEF WaitFails, ChildIsWaitedFor, HelpersServe
    <3>6. TargetIsForeign'  BY <2>20 DEF WaitFails, TargetIsForeign, HelpersServe
    <3>7. QED  BY <3>1, <3>2, <3>3, <3>4, <3>5, <3>6
  <2>21. CASE UNCHANGED vars
    BY <2>21 DEF vars, LockIsHeld, OfficeIsNamed, HelpersServe, ChildIsWaitedFor,
            TargetIsForeign
  <2>22. QED
    BY <2>1, <2>2, <2>3, <2>4, <2>5, <2>6, <2>7, <2>8, <2>9, <2>10,
       <2>11, <2>12, <2>13, <2>14, <2>15, <2>16, <2>17, <2>18, <2>19, <2>20, <2>21
       DEF Next, HelperStep, Tick
<1>3. QED  BY <1>1, <1>2, PTL DEF Spec

\* A supervisor ends no helper of its own run that it has not given up.
THEOREM EvictionsAreJust == Spec => EvictionIsJust
<1> DEFINE Just ==
      \A r \in Run, h \in Helper :
        Evicting(r) /\ sup'[r] = "sleep" /\ Alive(h) /\ at'[h] = "gone"
          => serves[h] # r \/ h \in lost
<1>1. SuccessionInvariant /\ [Next]_vars => [Just]_vars
  <2> SUFFICES ASSUME SuccessionInvariant, Next, NEW r \in Run, NEW h \in Helper,
                      Evicting(r), serves[h] = r, h \notin lost,
                      sup'[r] = "sleep", Alive(h), at'[h] = "gone"
               PROVE  FALSE
    OBVIOUS
  <2>1. sup[r] \in {"evict", "evictAnonymous"} /\ Up(r)
    BY DEF Evicting, Up, Supervising
  <2>2. sup[r] = "wait"
    BY <2>1 DEF SuccessionInvariant, ChildIsWaitedFor
  <2>3. QED  BY <2>1, <2>2
<1>2. QED  BY <1>1, SuccessionIsConsistent, PTL DEF Spec, EvictionIsJust

-----------------------------------------------------------------------------
(* The refinement: whoever is in office is the tenant of the seat.         *)

SeatFollowsOffice ==
  /\ \A h \in Helper : InOffice(h) => seatTenant = h /\ seatName = file
  /\ (\A h \in Helper : ~ InOffice(h)) => seatTenant = Nobody /\ seatName = Absent

LEMMA SeatOfHelper == SuccessionInvariant => SeatFollowsOffice
<1> SUFFICES ASSUME SuccessionInvariant  PROVE SeatFollowsOffice
  OBVIOUS
<1>1. \A g, h \in Helper : InOffice(g) /\ InOffice(h) => g = h
  BY DEF SuccessionInvariant, LockIsHeld, InOffice, HelperAt
<1>2. QED  BY <1>1 DEF SeatFollowsOffice, seatTenant, seatName

LEMMA NextSeatOfHelper == SuccessionInvariant' => SeatFollowsOffice'
BY SeatOfHelper, PTL

\* Whatever leaves the offices and the record alone leaves the seat alone.
LEMMA SeatUnmoved ==
  ASSUME SeatFollowsOffice, SeatFollowsOffice',
         \A h \in Helper : InOffice(h)' <=> InOffice(h),
         (\E h \in Helper : InOffice(h)) => file' = file
  PROVE  UNCHANGED S!vars
BY DEF SeatFollowsOffice, S!vars

\* The whole succession implements the abstract Seat: helpers of whatever runs follow
\* one another, each named by its own record for as long as it is in office.
THEOREM SuccessionImplementsSeat == Spec => ImplementsSeat
<1>1. Init => S!Init
  BY DEF Init, S!Init, seatTenant, seatName, InOffice, Alive
<1>2. SuccessionInvariant /\ SuccessionInvariant' /\ [Next]_vars => [S!Next]_S!vars
  <2> SUFFICES ASSUME SuccessionInvariant, SuccessionInvariant', [Next]_vars
               PROVE  S!Next \/ UNCHANGED S!vars
    BY DEF S!vars
  <2>1. SeatFollowsOffice /\ SeatFollowsOffice'
    BY SeatOfHelper, NextSeatOfHelper
  <2>2. ASSUME NEW h \in Helper, lock = h, NEW g \in Helper, InOffice(g)
        PROVE  g = h
    BY <2>2 DEF SuccessionInvariant, LockIsHeld, InOffice, HelperAt
  <2>3. ASSUME NEW h \in Helper, Publish(h)  PROVE S!Next
    <3>1. lock = h /\ ~ InOffice(h)
      BY <2>3 DEF Publish, InOffice, SuccessionInvariant, LockIsHeld, HelperAt
    <3>2. InOffice(h)' /\ file' = [tenant |-> h, run |-> serves[h]]
      BY <2>3 DEF Publish, Goes, InOffice, SuccessionInvariant, TypeOK, Process
    <3>3. file' \in S!SignedBy(h)
      BY <2>3, <3>2
         DEF Publish, Record, S!SignedBy, SuccessionInvariant, TypeOK, HelpersServe, Alive
    <3>4. seatTenant = Nobody
      BY <2>1, <2>2, <3>1 DEF SeatFollowsOffice
    <3>5. seatTenant' = h /\ seatName' = file'
      BY <2>1, <3>2 DEF SeatFollowsOffice
    <3>6. QED  BY <3>3, <3>4, <3>5 DEF S!Next, S!Take
  <2>4. ASSUME NEW p \in Process, at[p] # at'[p], ~ InOffice(p)',
               \A q \in Process \ {p} : at'[q] = at[q],
               file' = file \/ lock = p
        PROVE  S!Next \/ UNCHANGED S!vars
    <3>1. CASE p \in Helper /\ InOffice(p)
      <4>1. lock = p
        BY <3>1 DEF SuccessionInvariant, LockIsHeld, InOffice, HelperAt
      <4>2. \A h \in Helper : ~ InOffice(h)'
        BY <2>2, <2>4, <3>1, <4>1 DEF InOffice, Process
      <4>3. seatTenant = p /\ seatTenant' = Nobody /\ seatName' = Absent
        BY <2>1, <3>1, <4>2 DEF SeatFollowsOffice
      <4>4. QED  BY <3>1, <4>3 DEF S!Next, S!Leave
    <3>2. CASE ~ (p \in Helper /\ InOffice(p))
      <4>1. \A h \in Helper : InOffice(h)' <=> InOffice(h)
        BY <2>4, <3>2 DEF InOffice, Process
      <4>2. (\E h \in Helper : InOffice(h)) => file' = file
        BY <2>4, <3>2 DEF SuccessionInvariant, LockIsHeld, InOffice, HelperAt
      <4>3. QED  BY <2>1, <4>1, <4>2, SeatUnmoved
    <3>3. QED  BY <3>1, <3>2
  <2>5. ASSUME NEW p \in Process, Ends(p)  PROVE S!Next \/ UNCHANGED S!vars
    BY <2>4, <2>5 DEF Ends, Goes, Alive, InOffice, SuccessionInvariant, TypeOK
  <2>6. ASSUME NEW h \in Helper, RemoveRecord(h)  PROVE S!Next \/ UNCHANGED S!vars
    BY <2>4, <2>6
       DEF RemoveRecord, Goes, InOffice, Process, SuccessionInvariant, TypeOK, LockIsHeld,
           HelperAt
  <2>7. ASSUME NEW p \in Process, Goes(p, at'[p]), ~ InOffice(p), ~ InOffice(p)', file' = file
        PROVE  S!Next \/ UNCHANGED S!vars
    <3>1. \A h \in Helper : InOffice(h)' <=> InOffice(h)
      BY <2>7 DEF Goes, InOffice, Process, SuccessionInvariant, TypeOK
    <3>2. QED  BY <2>1, <2>7, <3>1, SeatUnmoved
  <2>8. ASSUME UNCHANGED at, UNCHANGED file  PROVE S!Next \/ UNCHANGED S!vars
    BY <2>1, <2>8, SeatUnmoved DEF InOffice
  <2>9. ASSUME NEW h \in Helper, HelperStep(h) \/ Unpublishable(h) \/ RemoveRecord(h)
        PROVE  S!Next \/ UNCHANGED S!vars
    <3>1. CASE Claim(h)
      BY <2>5, <2>7, <3>1 DEF Claim, Goes, InOffice, Process, SuccessionInvariant, TypeOK
    <3>2. CASE CloseLock(h)
      BY <2>5, <3>2 DEF CloseLock, Process
    <3>3. CASE Unpublishable(h)
      BY <2>7, <3>3
         DEF Unpublishable, role, Goes, InOffice, Process, SuccessionInvariant, TypeOK
    <3>4. QED  BY <2>3, <2>6, <2>9, <3>1, <3>2, <3>3 DEF HelperStep
  <2>10. ASSUME NEW r \in Run, Evict(r) \/ EvictAnonymous(r)
         PROVE  S!Next \/ UNCHANGED S!vars
    <3>1. CASE Evict(r)
      <4>1. whom[r] \in Process
        BY <3>1 DEF Evict, SuccessionInvariant, TargetIsForeign, Process
      <4>2. QED  BY <2>5, <2>8, <3>1, <4>1 DEF Evict, role
    <3>2. CASE EvictAnonymous(r)
      <4>1. Candidates \subseteq Process
        BY SuccessionConstants DEF SuccessionConstants, Candidates, Process
      <4>2. QED  BY <2>5, <2>8, <3>2, <4>1 DEF EvictAnonymous, role
    <3>3. QED  BY <2>10, <3>1, <3>2
  <2>11. ASSUME NEW r \in Run, SpawnHelper(r)  PROVE S!Next \/ UNCHANGED S!vars
    BY <2>7, <2>11
       DEF SpawnHelper, role, Goes, InOffice, Alive, Process, SuccessionInvariant, TypeOK
  <2>12. ASSUME NEW f \in Foreign, ForeignLock(f)  PROVE S!Next \/ UNCHANGED S!vars
    BY <2>7, <2>12
       DEF ForeignLock, Goes, InOffice, Process, SuccessionInvariant, TypeOK
  <2>13. QED
    BY <2>5, <2>8, <2>9, <2>10, <2>11, <2>12
       DEF Next, Crash, Tick, StartRun, EndRun, Elapse, SpawnFails, WaitFails, Probe,
           Start, Read, Exited, Wake, role, vars
<1>3. QED  BY <1>1, <1>2, SuccessionIsConsistent, PTL DEF Spec, ImplementsSeat, S!Spec
=============================================================================
