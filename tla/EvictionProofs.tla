--------------------------- MODULE EvictionProofs ---------------------------
(***************************************************************************)
(* What evict and evict_anonymous promise on any machine, under any policy *)
(* and however pids are used again.                                        *)
(***************************************************************************)
EXTENDS Eviction, TLAPS

-----------------------------------------------------------------------------
(* Tenant::compare.                                                        *)

\* A start time known to both sides decides alone against a process.
LEMMA OtherStartIsDifferent ==
  ASSUME NEW recorded, NEW live, recorded.startedAt # None, live.startedAt # None,
         recorded.startedAt # live.startedAt
  PROVE  Compare(recorded, live) = "Different"
BY DEF Compare, Corroborations, Corroboration

\* Facts that agree as far as they are known never make a process a different one.
LEMMA AgreeingFactsAreNotDifferent ==
  ASSUME NEW recorded, NEW live, recorded.pid = live.pid,
         recorded.startedAt \in {live.startedAt, None},
         live.image = None \/ recorded.image \in {live.image, None}
  PROVE  Compare(recorded, live) # "Different"
BY DEF Compare, Corroborations, Corroboration

\* A refutation stands, whatever else is learned of the record's writer or of the
\* process that has its pid; a confirmation never turns into doubt, only into a
\* refutation; and the answer does not depend on which side is the record.
THEOREM MoreFactsNeverAcquit ==
  ASSUME NEW recorded, NEW live, NEW recorded2, NEW live2,
         recorded.pid = recorded2.pid, live.pid = live2.pid,
         recorded.startedAt \in {None, recorded2.startedAt},
         recorded.image \in {None, recorded2.image},
         live.startedAt \in {None, live2.startedAt},
         live.image \in {None, live2.image}
  PROVE  /\ Compare(recorded, live) = "Different" => Compare(recorded2, live2) = "Different"
         /\ Compare(recorded, live) = "Same" => Compare(recorded2, live2) \in {"Same", "Different"}
         /\ Compare(live, recorded) = Compare(recorded, live)
<1>1. ASSUME NEW a, NEW b, NEW c, NEW d, a \in {None, c}, b \in {None, d}
      PROVE  /\ Corroboration(a, b) = "Contradicts" => Corroboration(c, d) = "Contradicts"
             /\ Corroboration(a, b) = "Confirms" => Corroboration(c, d) = "Confirms"
             /\ Corroboration(b, a) = Corroboration(a, b)
  BY <1>1 DEF Corroboration
<1>2. /\ "Contradicts" \in Corroborations(recorded, live)
           => "Contradicts" \in Corroborations(recorded2, live2)
      /\ "Confirms" \in Corroborations(recorded, live)
           => "Confirms" \in Corroborations(recorded2, live2)
      /\ Corroborations(live, recorded) = Corroborations(recorded, live)
  BY <1>1 DEF Corroborations
<1> QED BY <1>2 DEF Compare

-----------------------------------------------------------------------------
\* A pid that is visible has had a process.
LEMMA StartsAreCounted ==
  EvictionInvariant
    => \A q \in Pid : Start(q) \in 0..MaxBorn /\ (Visible(q) => Start(q) > 0)
BY Zenon DEF EvictionInvariant, TypeOK

LEMMA SpawnKeepsInvariant ==
  ASSUME EvictionInvariant, NEW p \in Pid, Spawn(p)
  PROVE  EvictionInvariant'
<1> USE EvictionConstants
<1>1. PICK i \in Image : ran' = [ran EXCEPT ![p] = Append(@, i)]
  BY DEF Spawn
<1>2. /\ status' = [status EXCEPT ![p] = "running"] /\ UNCHANGED call
      /\ ~ Visible(p) /\ Start(p) < MaxBorn
  BY DEF Spawn
<1>3. ran \in [Pid -> Seq(Image)] /\ status \in [Pid -> {"gone", "running", "ended"}]
  BY DEF EvictionInvariant, TypeOK
<1>4. ran' \in [Pid -> Seq(Image)]  BY <1>1, <1>3
<1>5. ran'[p] = Append(ran[p], i) /\ \A q \in Pid \ {p} : ran'[q] = ran[q]
  BY <1>1, <1>3
<1>6. /\ \A q \in Pid : Start(q)' = IF q = p THEN Start(q) + 1 ELSE Start(q)
      /\ \A q \in Pid : \A n \in 1..Start(q) : ran'[q][n] = ran[q][n]
  <2>1. ran[p] \in Seq(Image)  BY <1>3
  <2>2. /\ Len(Append(ran[p], i)) = Len(ran[p]) + 1
        /\ \A n \in 1..Len(ran[p]) : Append(ran[p], i)[n] = ran[p][n]
    BY <2>1
  <2>3. QED  BY <1>5, <2>2 DEF Start
<1>7. \A q \in Pid : /\ Visible(q)' <=> (q = p \/ Visible(q))
                    /\ Running(q)' <=> (q = p \/ Running(q))
  BY <1>2, <1>3 DEF Visible, Running
<1>8. TypeOK'
  <2>1. reused' \in BOOLEAN  BY Zenon DEF Spawn, EvictionInvariant, TypeOK
  <2>2. status' \in [Pid -> {"gone", "running", "ended"}]  BY <1>2, <1>3
  <2>3. \A q \in Pid : Start(q)' \in 0..MaxBorn /\ (Visible(q)' => Start(q)' > 0)
    <3>1. \A q \in Pid : Start(q) \in 0..MaxBorn /\ (Visible(q) => Start(q) > 0)
      BY StartsAreCounted
    <3>2. Start(p)' = Start(p) + 1 /\ \A q \in Pid \ {p} : Start(q)' = Start(q)
      BY <1>6
    <3>3. Start(p)' \in 1..MaxBorn  BY <1>2, <3>1, <3>2
    <3>4. Start(p)' \in 0..MaxBorn /\ Start(p)' > 0  BY <3>3
    <3>5. \A q \in Pid \ {p} : Visible(q)' => Visible(q)
      BY <1>2, <1>3 DEF Visible
    <3>6. QED  BY <3>1, <3>2, <3>4, <3>5, Zenon
  <2>4. QED
    BY <1>2, <1>4, <2>1, <2>2, <2>3, Zenon DEF EvictionInvariant, TypeOK, call
<1>9. TargetDescribesMeant'
  <2>1. meant \in Pid \X (0..MaxBorn) /\ UNCHANGED <<pc, target, meant>>
    BY <1>2 DEF EvictionInvariant, TypeOK, call
  <2>2. \A q \in Pid : Start(q) \in Nat  BY StartsAreCounted
  <2>3. TargetDescribesMeant  BY DEF EvictionInvariant
  <2>4. ASSUME pc \notin {"idle", "dead"}
        PROVE  /\ meant[2] \in 1..Start(meant[1])'
               /\ ran'[meant[1]][meant[2]] = ran[meant[1]][meant[2]]
    BY <1>6, <2>1, <2>2, <2>3, <2>4 DEF TargetDescribesMeant
  <2>5. QED
    BY <2>1, <2>3, <2>4 DEF TargetDescribesMeant
<1>10. LookIsFresh'
  BY <1>2, <1>6 DEF EvictionInvariant, LookIsFresh, TypeOK, Facts, call, Spawn
<1>11. SelfIsNotMeant'
  BY <1>2, <1>6, <1>7 DEF EvictionInvariant, SelfIsNotMeant, call, Visible, Running
<1>12. EscalationInTime'
  BY <1>2 DEF EvictionInvariant, EscalationInTime, call
<1>13. QED  BY <1>8, <1>9, <1>10, <1>11, <1>12 DEF EvictionInvariant

LEMMA ExitKeepsInvariant ==
  ASSUME EvictionInvariant, NEW p \in Pid, Exit(p) \/ Reap(p)
  PROVE  EvictionInvariant'
<1> USE EvictionConstants
<1>1. UNCHANGED <<ran, target, meant, waited, escalated, outcome, sent, victims, reused>>
  BY DEF Exit, Reap, call
<1>2. status \in [Pid -> {"gone", "running", "ended"}] /\ Self \in Pid
  BY DEF EvictionInvariant, TypeOK
<1>3. /\ status' \in [Pid -> {"gone", "running", "ended"}]
      /\ \A q \in Pid : status'[q] # "gone" => status[q] # "gone"
      /\ \A q \in Pid \ {p} : status'[q] = status[q]
  BY <1>2 DEF Exit, Reap, Running
<1>4. pc' \in {pc, "dead"} /\ (pc' # "dead" => Running(Self)')
  <2>1. pc # "dead" => Running(Self)  BY DEF EvictionInvariant, SelfIsNotMeant
  <2>2. QED  BY <1>2, <1>3, <2>1 DEF Exit, Reap, call, Running
<1>5. \A q \in Pid : Start(q)' = Start(q) /\ (Visible(q)' => Visible(q))
  BY <1>1, <1>3 DEF Start, Visible
<1>6. TypeOK'
  <2>1. pc' \in {"idle", "term", "look", "kill", "sleep", "dead"}
    BY <1>4 DEF EvictionInvariant, TypeOK
  <2>2. \A q \in Pid : Start(q)' \in 0..MaxBorn /\ (Visible(q)' => Start(q)' > 0)
    BY <1>5, StartsAreCounted
  <2>3. QED  BY <1>1, <1>3, <2>1, <2>2, Zenon DEF EvictionInvariant, TypeOK
<1>7. TargetDescribesMeant' /\ LookIsFresh' /\ EscalationInTime'
  BY <1>1, <1>4 DEF EvictionInvariant, TargetDescribesMeant, LookIsFresh,
                    EscalationInTime, Start
<1>8. SelfIsNotMeant'
  BY <1>1, <1>4 DEF EvictionInvariant, SelfIsNotMeant, Start
<1>9. QED  BY <1>6, <1>7, <1>8 DEF EvictionInvariant

-----------------------------------------------------------------------------
(* The steps of the caller leave the process table alone, but for a kill.  *)

LEMMA ReturnKeepsInvariant ==
  ASSUME EvictionInvariant, pc # "dead", NEW o \in Outcome, Return(o),
         UNCHANGED processes, reused' \in BOOLEAN
  PROVE  EvictionInvariant'
<1> USE EvictionConstants DEF EvictionInvariant, Return, processes
<1>1. TypeOK'
  <2>1. target' \in Facts  BY DEF NoTarget, Facts
  <2>2. waited' \in 0..Deadline  OBVIOUS
  <2>3. UNCHANGED <<ran, status>>  OBVIOUS
  <2>4. \A q \in Pid : Start(q)' = Start(q) /\ (Visible(q)' <=> Visible(q))
    BY <2>3, Zenon DEF Start, Visible
  <2>5. QED  BY <2>1, <2>2, <2>3, <2>4, Zenon DEF TypeOK
<1>2. TargetDescribesMeant' /\ LookIsFresh' /\ EscalationInTime'
  BY DEF TargetDescribesMeant, LookIsFresh, EscalationInTime
<1>3. SelfIsNotMeant'
  BY DEF SelfIsNotMeant, Running
<1>4. QED  BY <1>1, <1>2, <1>3

\* press is called with facts of the process that is meant, and, where they name
\* its start time, only while that process has the pid and is not the caller.
LEMMA PressKeepsInvariant ==
  ASSUME EvictionInvariant, pc = "idle",
         NEW tenant \in Facts, NEW p \in Pid, NEW n \in 1..MaxBorn,
         Press(tenant, <<p, n>>), UNCHANGED processes,
         tenant.pid = p, n <= Start(p), <<p, n>> # <<Self, Start(Self)>>,
         tenant.startedAt \in {n, None}, tenant.image \in {ran[p][n], None},
         tenant.startedAt # None => Start(p) = n
  PROVE  EvictionInvariant'
<1> USE EvictionConstants DEF EvictionInvariant, Press, processes
<1>1. UNCHANGED <<ran, status>> /\ \A q \in Pid : Start(q)' = Start(q)
  BY Zenon DEF Start
<1>2. TypeOK'
  <2>1. \A q \in Pid : Visible(q)' <=> Visible(q)  BY <1>1, Zenon DEF Visible
  <2>2. meant' \in Pid \X (0..MaxBorn)  OBVIOUS
  <2>3. QED  BY <1>1, <2>1, <2>2, Zenon DEF TypeOK, Outcome
<1>3. Start(p) \in Nat  BY DEF TypeOK
<1>4. TargetDescribesMeant'  BY <1>1, <1>3 DEF TargetDescribesMeant
<1>5. LookIsFresh'  BY <1>1 DEF LookIsFresh
<1>6. SelfIsNotMeant'  BY <1>1 DEF SelfIsNotMeant, Running
<1>7. EscalationInTime'  BY DEF EscalationInTime
<1>8. QED  BY <1>2, <1>4, <1>5, <1>6, <1>7

LEMMA EvictKeepsInvariant ==
  ASSUME EvictionInvariant, NEW p \in Pid, NEW n \in 1..MaxBorn,
         NEW startedAt \in (1..MaxBorn) \cup {None}, NEW image \in Image \cup {None},
         Evict(p, n, startedAt, image)
  PROVE  EvictionInvariant'
<1> USE EvictionConstants
<1> DEFINE recorded == [pid |-> p, startedAt |-> startedAt, image |-> image]
<1>1. /\ pc = "idle" /\ UNCHANGED processes
      /\ n <= Start(p) /\ <<p, n>> # <<Self, Start(Self)>>
      /\ startedAt \in {n, None} /\ image \in {ran[p][n], None}
  BY DEF Evict
<1>2. CASE Return("AlreadyGone") /\ UNCHANGED reused
  BY <1>1, <1>2, ReturnKeepsInvariant DEF Outcome, EvictionInvariant, TypeOK
<1>3. CASE Return("Refused") /\ UNCHANGED reused
  BY <1>1, <1>3, ReturnKeepsInvariant DEF Outcome, EvictionInvariant, TypeOK
<1>4. ASSUME NEW live \in LookUp(p), Press(recorded, <<p, n>>),
             Compare(recorded, live) # "Different"
      PROVE  EvictionInvariant'
  <2>1. recorded \in Facts  BY DEF Facts
  <2>2. live.startedAt = Start(p) /\ Start(p) # None
    BY DEF LookUp, EvictionInvariant, TypeOK
  <2>3. startedAt # None => Start(p) = n
    BY <1>1, <1>4, <2>2, OtherStartIsDifferent
  <2>4. QED  BY <1>1, <1>4, <2>1, <2>3, PressKeepsInvariant
<1>5. QED  BY <1>2, <1>3, <1>4 DEF Evict

LEMMA EvictAnonymousKeepsInvariant ==
  ASSUME EvictionInvariant, NEW expected \in Image, EvictAnonymous(expected)
  PROVE  EvictionInvariant'
<1> USE EvictionConstants
<1>1. pc = "idle" /\ UNCHANGED processes  BY DEF EvictAnonymous
<1>2. CASE (Return("NoCandidate") \/ Return("Ambiguous")) /\ UNCHANGED reused
  BY <1>1, <1>2, ReturnKeepsInvariant DEF Outcome, EvictionInvariant, TypeOK
<1>3. ASSUME NEW p \in RunningFrom(expected),
             Press([pid |-> p, startedAt |-> Start(p), image |-> expected],
                   <<p, Start(p)>>)
      PROVE  EvictionInvariant'
  <2>1. p \in Pid /\ p # Self /\ Visible(p) /\ ran[p][Start(p)] = expected
    BY DEF RunningFrom
  <2>2. Start(p) \in 1..MaxBorn  BY <2>1 DEF EvictionInvariant, TypeOK
  <2>3. [pid |-> p, startedAt |-> Start(p), image |-> expected] \in Facts
    BY <2>1, <2>2 DEF Facts
  <2>4. QED  BY <1>1, <1>3, <2>1, <2>2, <2>3, PressKeepsInvariant
<1>4. QED  BY <1>2, <1>3 DEF EvictAnonymous

-----------------------------------------------------------------------------
(* press.                                                                  *)

\* Whatever a signal reaches is a process there has been.
LEMMA VictimsAreProcesses ==
  ASSUME EvictionInvariant, pc \in {"term", "kill"}, Delivered \/ Undelivered
  PROVE  victims' \subseteq Pid \X (1..MaxBorn)
<1> USE EvictionConstants
<1>1. target.pid \in Pid  BY DEF EvictionInvariant, TypeOK, Facts
<1>2. victims \subseteq Pid \X (1..MaxBorn)  BY DEF EvictionInvariant, TypeOK
<1>3. CASE Delivered
  <2>1. Visible(target.pid)  BY <1>3 DEF Delivered, Running, Visible
  <2>2. Start(target.pid) \in 1..MaxBorn
    BY <1>1, <2>1 DEF EvictionInvariant, TypeOK
  <2>3. QED  BY <1>1, <1>2, <1>3, <2>2 DEF Delivered
<1>4. CASE Undelivered  BY <1>2, <1>4 DEF Undelivered
<1>5. QED  BY <1>3, <1>4

LEMMA SendTermKeepsInvariant ==
  ASSUME EvictionInvariant, SendTerm
  PROVE  EvictionInvariant'
<1> USE EvictionConstants
<1>1. /\ pc = "term" /\ pc' = "look" /\ waited' = 0 /\ sent' = {"Term"}
      /\ escalated' = (EscalateAfter = None)
      /\ UNCHANGED <<ran, status, target, meant, outcome, reused>>
      /\ Delivered \/ Undelivered
  BY DEF SendTerm, processes
<1>2. victims' \subseteq Pid \X (1..MaxBorn)  BY <1>1, VictimsAreProcesses
<1>3. \A q \in Pid : Start(q)' = Start(q) /\ (Visible(q)' <=> Visible(q))
  BY <1>1, Zenon DEF Start, Visible
<1>4. TypeOK'
  <2>1. waited' \in 0..Deadline /\ sent' \subseteq {"Term", "Kill"}  BY <1>1
  <2>2. escalated' \in BOOLEAN  BY <1>1, Zenon
  <2>3. pc' \in {"idle", "term", "look", "kill", "sleep", "dead"}  BY <1>1
  <2>4. QED
    BY <1>1, <1>2, <1>3, <2>1, <2>2, <2>3, Zenon DEF EvictionInvariant, TypeOK
<1>5. TargetDescribesMeant'
  BY <1>1 DEF EvictionInvariant, TargetDescribesMeant, Start
<1>6. LookIsFresh'  BY <1>1 DEF LookIsFresh
<1>7. SelfIsNotMeant'
  BY <1>1 DEF EvictionInvariant, SelfIsNotMeant, Running, Start
<1>8. EscalationInTime'
  <2>1. EscalateAfter # None => ~ escalated'  BY <1>1, Zenon
  <2>2. EscalateAfter # None => waited' < EscalateAfter + Poll + Late  BY <1>1
  <2>3. QED  BY <1>1, <2>1, <2>2 DEF EscalationInTime
<1>9. QED  BY <1>4, <1>5, <1>6, <1>7, <1>8 DEF EvictionInvariant

\* The look that goes on has found the tenant, or nothing that speaks against it.
LEMMA LookKeepsInvariant ==
  ASSUME EvictionInvariant, Look
  PROVE  EvictionInvariant'
<1> USE EvictionConstants
<1>1. pc = "look" /\ UNCHANGED processes /\ reused' = FALSE  BY DEF Look
<1>2. CASE Return("Left") \/ Return("Stubborn")
  BY <1>1, <1>2, ReturnKeepsInvariant DEF Outcome
<1>3. ASSUME NEW live \in LookUp(target.pid), Visible(target.pid),
             Compare(target, live) # "Different",
             pc' = (IF Escalates THEN "kill" ELSE "sleep"),
             escalated' = (escalated \/ Escalates),
             UNCHANGED <<target, meant, waited, outcome, sent, victims>>
      PROVE  EvictionInvariant'
  <2>1. UNCHANGED <<ran, status>> /\ \A q \in Pid : Start(q)' = Start(q)
    BY <1>1, Zenon DEF processes, Start
  <2>2. target.pid = meant[1] /\ target.startedAt \in {meant[2], None}
    BY <1>1 DEF EvictionInvariant, TargetDescribesMeant
  <2>3. target.startedAt # None => Start(target.pid) = meant[2]
    <3>1. target.pid \in Pid /\ meant \in Pid \X (0..MaxBorn)
      BY DEF EvictionInvariant, TypeOK, Facts
    <3>2. live.startedAt = Start(target.pid) /\ live.startedAt # None
      BY <3>1 DEF LookUp, EvictionInvariant, TypeOK
    <3>3. QED  BY <1>3, <2>2, <3>2, OtherStartIsDifferent
  <2>4. TypeOK'
    <3>1. \A q \in Pid : Visible(q)' <=> Visible(q)
      BY <2>1, Zenon DEF Visible
    <3>2. pc' \in {"idle", "term", "look", "kill", "sleep", "dead"}  BY <1>3
    <3>3. escalated' \in BOOLEAN  BY <1>3, Zenon
    <3>4. reused' \in BOOLEAN  BY <1>1
    <3>5. QED
      BY <1>3, <2>1, <3>1, <3>2, <3>3, <3>4, Zenon DEF EvictionInvariant, TypeOK
  <2>5. TargetDescribesMeant'
    BY <1>1, <1>3, <2>1 DEF EvictionInvariant, TargetDescribesMeant, Start
  <2>6. LookIsFresh'  BY <1>3, <2>1, <2>3 DEF LookIsFresh, Start
  <2>7. SelfIsNotMeant'
    <3>1. Running(Self)' /\ meant # <<Self, Start(Self)>>
      BY <1>1, <2>1 DEF EvictionInvariant, SelfIsNotMeant, Running
    <3>2. meant = <<meant[1], meant[2]>>  BY DEF EvictionInvariant, TypeOK
    <3>3. target.startedAt # None => target.pid # Self
      BY <2>2, <2>3, <3>1, <3>2
    <3>4. QED  BY <1>3, <2>1, <3>1, <3>3 DEF SelfIsNotMeant, Start
  <2>8. EscalationInTime'
    <3>1. SUFFICES ASSUME EscalateAfter # None  PROVE EscalationInTime'
      BY DEF EscalationInTime
    <3>2. EscalateAfter \in Nat /\ waited \in Nat
      BY <3>1 DEF EvictionInvariant, TypeOK
    <3>3. escalated => "Kill" \in sent
      BY <1>1, <3>1 DEF EvictionInvariant, EscalationInTime
    <3>4. pc' = "kill" => escalated'  BY <1>3
    <3>5. pc' = "sleep" => (escalated' => escalated)  BY <1>3
    <3>6. pc' = "sleep" /\ ~ escalated' => waited < EscalateAfter
      <4>1. ~ escalated' => ~ escalated /\ ~ Escalates  BY <1>3, Zenon
      <4>2. ~ escalated /\ ~ Escalates => ~ (waited >= EscalateAfter)
        BY Zenon DEF Escalates
      <4>3. ~ (waited >= EscalateAfter) => waited < EscalateAfter  BY <3>2
      <4>4. QED  BY <4>1, <4>2, <4>3, Zenon
    <3>7. QED  BY <1>3, <3>3, <3>4, <3>5, <3>6 DEF EscalationInTime
  <2>9. QED  BY <2>4, <2>5, <2>6, <2>7, <2>8 DEF EvictionInvariant
<1>4. QED  BY <1>1, <1>2, <1>3 DEF Look

LEMMA SendKillKeepsInvariant ==
  ASSUME EvictionInvariant, SendKill
  PROVE  EvictionInvariant'
<1> USE EvictionConstants
<1>1. /\ pc = "kill" /\ pc' \in {"sleep", "dead"} /\ sent' = sent \cup {"Kill"}
      /\ UNCHANGED <<ran, target, meant, waited, escalated, outcome, reused>>
      /\ Delivered \/ Undelivered
  BY DEF SendKill
<1>2. victims' \subseteq Pid \X (1..MaxBorn)  BY <1>1, VictimsAreProcesses
<1>3. target.pid \in Pid /\ status \in [Pid -> {"gone", "running", "ended"}]
  BY DEF EvictionInvariant, TypeOK, Facts
<1>4. /\ status' \in [Pid -> {"gone", "running", "ended"}]
      /\ \A q \in Pid : status'[q] # "gone" => status[q] # "gone"
      /\ \A q \in Pid \ {target.pid} : status'[q] = status[q]
      /\ pc' # "dead" => status'[Self] = status[Self]
  BY <1>3 DEF SendKill, Delivered, Running
<1>5. \A q \in Pid : Start(q)' = Start(q) /\ (Visible(q)' => Visible(q))
  BY <1>1, <1>4 DEF Start, Visible
<1>6. TypeOK'
  <2>1. sent' \subseteq {"Term", "Kill"}  BY <1>1 DEF EvictionInvariant, TypeOK
  <2>2. pc' \in {"idle", "term", "look", "kill", "sleep", "dead"}  BY <1>1
  <2>3. \A q \in Pid : Start(q)' \in 0..MaxBorn /\ (Visible(q)' => Start(q)' > 0)
    BY <1>5, StartsAreCounted
  <2>4. QED
    BY <1>1, <1>2, <1>4, <2>1, <2>2, <2>3, Zenon DEF EvictionInvariant, TypeOK
<1>7. TargetDescribesMeant'
  BY <1>1 DEF EvictionInvariant, TargetDescribesMeant, Start
<1>8. LookIsFresh'  BY <1>1 DEF LookIsFresh
<1>9. SelfIsNotMeant'
  BY <1>1, <1>4 DEF EvictionInvariant, SelfIsNotMeant, Running, Start
<1>10. EscalationInTime'
  BY <1>1 DEF EvictionInvariant, EscalationInTime
<1>11. QED  BY <1>6, <1>7, <1>8, <1>9, <1>10 DEF EvictionInvariant

LEMMA SleepKeepsInvariant ==
  ASSUME EvictionInvariant, Sleep
  PROVE  EvictionInvariant'
<1> USE EvictionConstants
<1>1. /\ pc = "sleep" /\ pc' = "look"
      /\ UNCHANGED <<ran, status, target, meant, escalated, outcome, sent, victims,
                     reused>>
  BY DEF Sleep, processes
<1>2. waited \in 0..Deadline /\ waited' \in 0..Deadline
      /\ waited' <= waited + Poll + Late
  <2>1. waited \in 0..Deadline  BY DEF EvictionInvariant, TypeOK
  <2>2. PICK slept \in Poll..(Poll + Late) :
          waited' = IF waited + slept < Deadline THEN waited + slept ELSE Deadline
    BY DEF Sleep
  <2>3. QED  BY <2>1, <2>2
<1>3. \A q \in Pid : Start(q)' = Start(q) /\ (Visible(q)' <=> Visible(q))
  BY <1>1, Zenon DEF Start, Visible
<1>4. TypeOK'
  <2>1. pc' \in {"idle", "term", "look", "kill", "sleep", "dead"}  BY <1>1
  <2>2. QED  BY <1>1, <1>2, <1>3, <2>1, Zenon DEF EvictionInvariant, TypeOK
<1>5. TargetDescribesMeant'
  BY <1>1 DEF EvictionInvariant, TargetDescribesMeant, Start
<1>6. LookIsFresh'  BY <1>1 DEF LookIsFresh
<1>7. SelfIsNotMeant'
  BY <1>1 DEF EvictionInvariant, SelfIsNotMeant, Running, Start
<1>8. EscalationInTime'
  BY <1>1, <1>2 DEF EvictionInvariant, EscalationInTime
<1>9. QED  BY <1>4, <1>5, <1>6, <1>7, <1>8 DEF EvictionInvariant

-----------------------------------------------------------------------------
(* Theorems.                                                               *)

LEMMA InitSatisfiesInvariant == Init => EvictionInvariant
<1> SUFFICES ASSUME Init  PROVE EvictionInvariant
  OBVIOUS
<1> USE EvictionConstants
<1>1. PICK earlier \in {<<>>} \cup {<<i>> : i \in Image}, image \in Image :
        ran = [p \in Pid |-> IF p = Self THEN Append(earlier, image) ELSE <<>>]
  BY DEF Init
<1>2. earlier \in Seq(Image) /\ Append(earlier, image) \in Seq(Image)
      /\ Len(Append(earlier, image)) = Len(earlier) + 1 /\ Len(earlier) \in Nat
  <2>1. <<>> \in Seq(Image) /\ \A i \in Image : <<i>> \in Seq(Image)  OBVIOUS
  <2>2. earlier \in Seq(Image)  BY <2>1, Zenon
  <2>3. QED  BY <2>2
<1>3. ran \in [Pid -> Seq(Image)]  BY <1>1, <1>2
<1>4. Start(Self) = Len(earlier) + 1 /\ \A p \in Pid \ {Self} : Start(p) = 0
  BY <1>1, <1>2 DEF Start
<1>5. status = [p \in Pid |-> IF p = Self THEN "running" ELSE "gone"]
      /\ Start(Self) <= MaxBorn
  BY DEF Init
<1>6. \A p \in Pid : Start(p) \in 0..MaxBorn /\ (Visible(p) => Start(p) > 0)
  BY <1>2, <1>4, <1>5 DEF Visible
<1>7. status \in [Pid -> {"gone", "running", "ended"}]  BY <1>5
<1>8. TypeOK
  <2>1. target \in Facts  BY DEF Init, NoTarget, Facts
  <2>2. meant \in Pid \X (0..MaxBorn) /\ waited \in 0..Deadline
    BY DEF Init
  <2>3. pc \in {"idle", "term", "look", "kill", "sleep", "dead"}  BY DEF Init
  <2>4. sent \subseteq {"Term", "Kill"} /\ victims \subseteq Pid \X (1..MaxBorn)
    BY DEF Init
  <2>5. escalated \in BOOLEAN /\ reused \in BOOLEAN /\ outcome \in Outcome
    BY DEF Init, Outcome
  <2>6. QED
    BY <1>3, <1>6, <1>7, <2>1, <2>2, <2>3, <2>4, <2>5, Zenon DEF TypeOK
<1>9. TargetDescribesMeant /\ LookIsFresh /\ EscalationInTime
  BY DEF Init, TargetDescribesMeant, LookIsFresh, EscalationInTime
<1>10. SelfIsNotMeant  BY <1>5 DEF Init, SelfIsNotMeant, Running
<1>11. QED  BY <1>8, <1>9, <1>10 DEF EvictionInvariant

\* Every step of the caller and of the machine around it keeps target, meant and
\* the start times in the relation that makes a signal safe.
THEOREM EvictionIsConsistent == Spec => []EvictionInvariant
<1>1. EvictionInvariant /\ [Next]_vars => EvictionInvariant'
  <2> SUFFICES ASSUME EvictionInvariant, [Next]_vars  PROVE EvictionInvariant'
    OBVIOUS
  <2>1. ASSUME NEW p \in Pid, Spawn(p) \/ Exit(p) \/ Reap(p)
        PROVE  EvictionInvariant'
    BY <2>1, SpawnKeepsInvariant, ExitKeepsInvariant
  <2>2. ASSUME NEW p \in Pid, NEW n \in 1..MaxBorn,
               NEW startedAt \in (1..MaxBorn) \cup {None},
               NEW image \in Image \cup {None}, Evict(p, n, startedAt, image)
        PROVE  EvictionInvariant'
    BY <2>2, EvictKeepsInvariant
  <2>3. ASSUME NEW expected \in Image, EvictAnonymous(expected)
        PROVE  EvictionInvariant'
    BY <2>3, EvictAnonymousKeepsInvariant
  <2>4. CASE SendTerm  BY <2>4, SendTermKeepsInvariant
  <2>5. CASE Look  BY <2>5, LookKeepsInvariant
  <2>6. CASE SendKill  BY <2>6, SendKillKeepsInvariant
  <2>7. CASE Sleep  BY <2>7, SleepKeepsInvariant
  <2>8. CASE UNCHANGED vars
    <3>1. UNCHANGED <<ran, status, pc, target, meant, waited, escalated, outcome,
                      sent, victims, reused>>
      BY <2>8 DEF vars, processes, call
    <3>2. \A q \in Pid : Start(q)' = Start(q) /\ (Visible(q)' <=> Visible(q))
      BY <3>1, Zenon DEF Start, Visible
    <3>3. TypeOK'  BY <3>1, <3>2, Zenon DEF EvictionInvariant, TypeOK
    <3>4. TargetDescribesMeant' /\ LookIsFresh' /\ EscalationInTime'
      BY <3>1 DEF EvictionInvariant, TargetDescribesMeant, LookIsFresh,
                  EscalationInTime, Start
    <3>5. SelfIsNotMeant'
      BY <3>1 DEF EvictionInvariant, SelfIsNotMeant, Running, Start
    <3>6. QED  BY <3>3, <3>4, <3>5 DEF EvictionInvariant
  <2>9. QED
    BY <2>1, <2>2, <2>3, <2>4, <2>5, <2>6, <2>7, <2>8, Zenon DEF Next
<1>2. QED  BY <1>1, InitSatisfiesInvariant, PTL DEF Spec

\* Where a signal goes: to what runs under target's pid, out of press only.
LEMMA SignalsComeFromPress ==
  ASSUME [Next]_vars, NEW v \in Signalled
  PROVE  pc \in {"term", "kill"} /\ v = <<target.pid, Start(target.pid)>>
<1>1. CASE SendTerm \/ SendKill
  BY <1>1 DEF SendTerm, SendKill, Delivered, Undelivered, Signalled
<1>2. ASSUME UNCHANGED victims \/ victims' = {}  PROVE FALSE
  BY <1>2 DEF Signalled
<1>3. ASSUME NEW p \in Pid, Spawn(p) \/ Exit(p) \/ Reap(p)  PROVE FALSE
  BY <1>2, <1>3 DEF Spawn, Exit, Reap, call
<1>4. ASSUME NEW p \in Pid, NEW n \in 1..MaxBorn,
             NEW startedAt \in (1..MaxBorn) \cup {None},
             NEW image \in Image \cup {None}, Evict(p, n, startedAt, image)
      PROVE  FALSE
  BY <1>2, <1>4 DEF Evict, Press, Return
<1>5. ASSUME NEW expected \in Image, EvictAnonymous(expected)  PROVE FALSE
  BY <1>2, <1>5 DEF EvictAnonymous, Press, Return
<1>6. CASE Look  BY <1>2, <1>6 DEF Look, Return
<1>7. CASE Sleep  BY <1>2, <1>7 DEF Sleep
<1>8. CASE UNCHANGED vars  BY <1>2, <1>8 DEF vars, call
<1>9. QED
  BY <1>1, <1>3, <1>4, <1>5, <1>6, <1>7, <1>8, Zenon DEF Next

\* A tenant whose start time is on record is the only process press can signal,
\* but for the one gap between a look and the signal after it.
THEOREM OnlyTheWriterIsSignalled == Spec => SignalsOnlyTheWriter
<1>1. EvictionInvariant /\ [Next]_vars
        => [\A v \in Signalled : v = meant \/ reused \/ target.startedAt = None]_vars
  <2> SUFFICES ASSUME EvictionInvariant, [Next]_vars, NEW v \in Signalled,
                      ~ reused, target.startedAt # None
               PROVE  v = meant
    BY Zenon
  <2>1. pc \in {"term", "kill"} /\ v = <<target.pid, Start(target.pid)>>
    BY SignalsComeFromPress
  <2>2. target.pid = meant[1] /\ Start(target.pid) = meant[2]
    BY <2>1 DEF EvictionInvariant, TargetDescribesMeant, LookIsFresh
  <2>3. meant = <<meant[1], meant[2]>>  BY DEF EvictionInvariant, TypeOK
  <2>4. QED  BY <2>1, <2>2, <2>3
<1>2. QED  BY <1>1, EvictionIsConsistent, PTL DEF Spec, SignalsOnlyTheWriter

\* The caller is not among those it signals, whoever has had its pid before.
THEOREM CallerIsSpared == Spec => SelfIsSpared
<1>1. EvictionInvariant /\ [Next]_vars
        => [\A v \in Signalled : v[1] = Self => target.startedAt = None]_vars
  <2> SUFFICES ASSUME EvictionInvariant, [Next]_vars, NEW v \in Signalled, v[1] = Self
               PROVE  target.startedAt = None
    BY Zenon
  <2>1. pc \in {"term", "kill"} /\ target.pid = Self  BY SignalsComeFromPress
  <2>2. QED  BY <2>1 DEF EvictionInvariant, SelfIsNotMeant
<1>2. QED  BY <1>1, EvictionIsConsistent, PTL DEF Spec, SelfIsSpared

\* press returns from its look at the tenant and from nowhere else.
LEMMA PressReturnsFromLook ==
  ASSUME [Next]_vars, pc = "look", pc' = "idle"
  PROVE  Look
<1>1. ASSUME NEW p \in Pid, Spawn(p) \/ Exit(p) \/ Reap(p)  PROVE FALSE
  BY <1>1 DEF Spawn, Exit, Reap, call
<1>2. ASSUME NEW p \in Pid, NEW n \in 1..MaxBorn,
             NEW startedAt \in (1..MaxBorn) \cup {None},
             NEW image \in Image \cup {None}, Evict(p, n, startedAt, image)
      PROVE  FALSE
  BY <1>2 DEF Evict
<1>3. ASSUME NEW expected \in Image, EvictAnonymous(expected)  PROVE FALSE
  BY <1>3 DEF EvictAnonymous
<1>4. ~ SendTerm /\ ~ SendKill /\ ~ Sleep  BY DEF SendTerm, SendKill, Sleep
<1>5. ~ UNCHANGED vars  BY DEF vars, call
<1>6. QED  BY <1>1, <1>2, <1>3, <1>4, <1>5, Zenon DEF Next

\* Left is only reported once the process that was to leave has ended.
THEOREM LeftIsTrue == Spec => LeftMeansGone
<1>1. EvictionInvariant /\ [Next]_vars
        => [Returns("Left") => ~ (Running(meant[1]) /\ Start(meant[1]) = meant[2])]_vars
  <2> SUFFICES ASSUME EvictionInvariant, [Next]_vars, pc = "look", pc' = "idle",
                      outcome' = "Left", Running(meant[1]), Start(meant[1]) = meant[2]
               PROVE  FALSE
    BY Zenon DEF Returns
  <2>1. Look  BY PressReturnsFromLook
  <2>2. /\ target.pid = meant[1] /\ target.startedAt \in {meant[2], None}
        /\ target.image \in {ran[meant[1]][meant[2]], None}
    BY DEF EvictionInvariant, TargetDescribesMeant
  <2>3. Visible(target.pid)  BY <2>2 DEF Running, Visible
  <2>4. ASSUME NEW live \in LookUp(target.pid)
        PROVE  Compare(target, live) # "Different"
    <3>1. live.pid = target.pid /\ live.startedAt = meant[2]
          /\ live.image \in {ran[meant[1]][meant[2]], None}
      BY <2>2 DEF LookUp
    <3>2. QED  BY <2>2, <3>1, AgreeingFactsAreNotDifferent
  <2>5. QED  BY <2>1, <2>3, <2>4 DEF Look, Return
<1>2. QED  BY <1>1, EvictionIsConsistent, PTL DEF Spec, LeftMeansGone

\* A policy that leaves room for one late wake-up never gives up on a tenant it
\* has not tried to kill.
THEOREM StubbornIsKilledFirst == Spec => StubbornWasKilled
<1>1. EvictionInvariant /\ [Next]_vars
        => [Returns("Stubborn") /\ EscalateAfter # None
              /\ EscalateAfter + Poll + Late <= Deadline => "Kill" \in sent]_vars
  <2> SUFFICES ASSUME EvictionInvariant, [Next]_vars, pc = "look", pc' = "idle",
                      outcome' = "Stubborn", EscalateAfter # None,
                      EscalateAfter + Poll + Late <= Deadline
               PROVE  "Kill" \in sent
    BY Zenon DEF Returns
  <2>1. Look  BY PressReturnsFromLook
  <2>2. waited >= Deadline  BY <2>1 DEF Look, Return, GivesUp
  <2>3. EscalateAfter \in Nat /\ waited \in Nat
    BY EvictionConstants DEF EvictionInvariant, TypeOK
  <2>4. escalated
    BY <2>2, <2>3, EvictionConstants DEF EvictionInvariant, EscalationInTime
  <2>5. QED  BY <2>4 DEF EvictionInvariant, EscalationInTime
<1>2. QED  BY <1>1, EvictionIsConsistent, PTL DEF Spec, StubbornWasKilled

-----------------------------------------------------------------------------
(* The turns of press.                                                     *)

\* Every step of press and of the machine keeps the count of the turns.
LEMMA TurnsStayCounted ==
  ASSUME EvictionInvariant, TurnsAreCounted, [Next]_vars
  PROVE  TurnsAreCounted'
<1> USE EvictionConstants
<1>1. waited \in 0..Deadline /\ escalated \in BOOLEAN
  BY DEF EvictionInvariant, TypeOK
<1>2. ASSUME UNCHANGED <<waited, sent, escalated>>, pc' \in {pc, "dead"}
      PROVE  TurnsAreCounted'
  BY <1>2 DEF TurnsAreCounted
<1>3. ASSUME NEW o, Return(o)
      PROVE  TurnsAreCounted'
  BY <1>3 DEF Return, TurnsAreCounted
<1>4. ASSUME NEW tenant, NEW process, Press(tenant, process), pc = "idle"
      PROVE  TurnsAreCounted'
  BY <1>4 DEF Press, TurnsAreCounted
<1>5. ASSUME NEW p \in Pid, Spawn(p) \/ Exit(p) \/ Reap(p)
      PROVE  TurnsAreCounted'
  BY <1>2, <1>5 DEF Spawn, Exit, Reap, call
<1>6. ASSUME NEW p \in Pid, NEW n \in 1..MaxBorn,
             NEW startedAt \in (1..MaxBorn) \cup {None},
             NEW image \in Image \cup {None}, Evict(p, n, startedAt, image)
      PROVE  TurnsAreCounted'
  BY <1>3, <1>4, <1>6, Zenon DEF Evict
<1>7. ASSUME NEW expected \in Image, EvictAnonymous(expected)
      PROVE  TurnsAreCounted'
  BY <1>3, <1>4, <1>7, Zenon DEF EvictAnonymous
<1>8. CASE SendTerm
  <2>1. pc' = "look" /\ "Kill" \notin sent'
    BY <1>8 DEF SendTerm
  <2>2. EscalateAfter = None => escalated'
    BY <1>8, Zenon DEF SendTerm
  <2> QED BY <2>1, <2>2 DEF TurnsAreCounted
<1>9. CASE Look
  <2>1. CASE Return("Left") \/ Return("Stubborn")
    BY <1>3, <2>1
  <2>2. CASE /\ ~ GivesUp /\ pc' = (IF Escalates THEN "kill" ELSE "sleep")
             /\ escalated' = (escalated \/ Escalates) /\ UNCHANGED <<waited, sent>>
    <3>1. pc = "look"
      BY <1>9 DEF Look
    <3>2. waited < Deadline
      BY <1>1, <2>2 DEF GivesUp
    <3>3. Escalates => ~ escalated
      BY Zenon DEF Escalates
    <3>4. escalated => escalated'
      BY <2>2, Zenon
    <3>5. pc' = "kill" <=> Escalates
      BY <2>2
    <3>6. "Kill" \in sent' => pc' = "sleep" /\ escalated'
      BY <2>2, <3>3, <3>4 DEF TurnsAreCounted
    <3>7. EscalateAfter = None => pc' # "kill" /\ escalated'
      BY <3>1, <3>3, <3>4, <3>5 DEF TurnsAreCounted
    <3>8. pc' \in {"kill", "sleep"} /\ waited' = waited
      BY <2>2
    <3> QED BY <3>2, <3>6, <3>7, <3>8 DEF TurnsAreCounted
  <2> QED BY <1>9, <2>1, <2>2 DEF Look
<1>10. CASE SendKill
  <2>1. /\ pc = "kill" /\ pc' \in {"sleep", "dead"}
        /\ UNCHANGED <<waited, escalated>>
    BY <1>10 DEF SendKill
  <2>2. EscalateAfter # None /\ waited < Deadline
    BY <2>1 DEF TurnsAreCounted
  <2>3. escalated
    BY <2>1, <2>2 DEF EvictionInvariant, EscalationInTime
  <2> QED BY <2>1, <2>2, <2>3 DEF TurnsAreCounted
<1>11. CASE Sleep
  <2>1. pc = "sleep" /\ pc' = "look" /\ UNCHANGED <<sent, escalated>>
    BY <1>11 DEF Sleep
  <2> QED BY <2>1 DEF TurnsAreCounted
<1>12. CASE UNCHANGED vars
  BY <1>2, <1>12 DEF vars, call
<1> QED
  BY <1>5, <1>6, <1>7, <1>8, <1>9, <1>10, <1>11, <1>12, Zenon DEF Next

\* Where press is in its loop, what it has sent and what time it has left agree.
THEOREM TurnsAreAlwaysCounted == Spec => []TurnsAreCounted
<1>1. Init => TurnsAreCounted
  BY DEF Init, TurnsAreCounted
<1> QED BY <1>1, TurnsStayCounted, EvictionIsConsistent, PTL DEF Spec

\* No call of press sends SIGKILL twice, under any policy.
THEOREM OneKillPerCall == Spec => []KillsOnce
<1>1. TurnsAreCounted => KillsOnce
  BY DEF TurnsAreCounted, KillsOnce
<1> QED BY <1>1, TurnsAreAlwaysCounted, PTL

\* Time that has passed outweighs the steps of a turn.
LEMMA LaterLeavesLess ==
  ASSUME NEW d \in Nat, NEW v \in Nat, NEW w \in Nat, w < v, v <= d
  PROVE  4 * (d - v) + 3 < 4 * (d - w) + 1
OBVIOUS

\* Each step of press leaves less of it to do: of the liveness of evict, that it returns
\* if its steps are taken, all but the fairness.
THEOREM PressHasAnEnd == Spec => [](Remaining \in Nat) /\ StepsComeNearer
<1>0. EvictionInvariant => Remaining \in Nat
  BY EvictionConstants DEF EvictionInvariant, TypeOK, Remaining
<1>1. ASSUME EvictionInvariant, TurnsAreCounted, [Next]_vars
      PROVE  [pc # "idle" => Remaining' < Remaining \/ UNCHANGED call]_vars
  <2> SUFFICES ASSUME Next, pc # "idle"
               PROVE  Remaining' < Remaining \/ UNCHANGED call
    BY <1>1 DEF call, vars
  <2> USE EvictionConstants
  <2>1. /\ waited \in 0..Deadline /\ Deadline \in Nat
        /\ pc \in {"idle", "term", "look", "kill", "sleep", "dead"}
    BY <1>1 DEF EvictionInvariant, TypeOK
  <2>2. /\ pc \in {"term", "look", "kill", "sleep"} => Remaining > 0
        /\ pc = "term" => Remaining = 4 * (Deadline - waited) + 4
        /\ pc = "look" => Remaining = 4 * (Deadline - waited) + 3
        /\ pc = "kill" => Remaining = 4 * (Deadline - waited) + 2
        /\ pc = "sleep" => Remaining = 4 * (Deadline - waited) + 1
    BY <2>1 DEF Remaining
  <2>3. /\ pc' \in {"idle", "dead"} => Remaining' = 0
        /\ pc' = "look" => Remaining' = 4 * (Deadline - waited') + 3
        /\ pc' = "kill" => Remaining' = 4 * (Deadline - waited') + 2
        /\ pc' = "sleep" => Remaining' = 4 * (Deadline - waited') + 1
    BY DEF Remaining
  <2>4. ASSUME NEW p \in Pid, Spawn(p) \/ Exit(p) \/ Reap(p)
        PROVE  Remaining' < Remaining \/ UNCHANGED call
    <3>1. UNCHANGED call \/ (pc' = "dead" /\ pc # "dead")
      BY <2>4 DEF Spawn, Exit, Reap, call
    <3> QED BY <2>1, <2>2, <2>3, <3>1
  <2>5. CASE SendTerm
    <3>1. pc = "term" /\ pc' = "look" /\ waited' = 0 /\ waited = 0
      BY <1>1, <2>5 DEF SendTerm, TurnsAreCounted
    <3> QED BY <2>1, <2>2, <2>3, <3>1
  <2>6. CASE Look
    <3>1. pc = "look" /\ (pc' = "idle" \/ (pc' \in {"kill", "sleep"} /\ waited' = waited))
      BY <2>6 DEF Look, Return
    <3> QED BY <2>1, <2>2, <2>3, <3>1
  <2>7. CASE SendKill
    <3>1. pc = "kill" /\ pc' \in {"sleep", "dead"} /\ waited' = waited
      BY <2>7 DEF SendKill
    <3> QED BY <2>1, <2>2, <2>3, <3>1
  <2>8. CASE Sleep
    <3>1. pc = "sleep" /\ pc' = "look" /\ waited < Deadline
      BY <1>1, <2>8 DEF Sleep, TurnsAreCounted
    <3>2. waited' \in Nat /\ waited' <= Deadline /\ waited' > waited
      BY <2>1, <2>8, <3>1 DEF Sleep
    <3>3. waited \in Nat /\ waited < waited' /\ Deadline \in Nat
      BY <2>1, <3>2
    <3>4. 4 * (Deadline - waited') + 3 < 4 * (Deadline - waited) + 1
      BY ONLY <3>2, <3>3, LaterLeavesLess
    <3> QED BY <2>2, <2>3, <3>1, <3>4
  <2>9. /\ ~ \E p \in Pid, n \in 1..MaxBorn, startedAt \in (1..MaxBorn) \cup {None},
              image \in Image \cup {None} : Evict(p, n, startedAt, image)
        /\ ~ \E expected \in Image : EvictAnonymous(expected)
    BY DEF Evict, EvictAnonymous
  <2> QED BY <2>4, <2>5, <2>6, <2>7, <2>8, <2>9, Zenon DEF Next
<1> QED BY <1>0, <1>1, EvictionIsConsistent, TurnsAreAlwaysCounted, PTL DEF Spec, StepsComeNearer

-----------------------------------------------------------------------------
(* Whom press has signalled.                                               *)

\* A step that leaves target and victims alone, and lets pids only have had more
\* processes, keeps what is known of the victims, unless it comes to press them further.
LEMMA VictimsStay ==
  ASSUME EvictionInvariant, VictimsFollowMeant, BystanderIsHitOnce,
         UNCHANGED <<target, meant, victims>>,
         pc' \in {pc, "dead"} \/ (pc = "sleep" /\ pc' = "look"),
         \A q \in Pid : Start(q) \in Nat /\ Start(q)' \in Nat /\ Start(q)' >= Start(q)
  PROVE  VictimsFollowMeant' /\ BystanderIsHitOnce'
<1>1. target.pid \in Pid /\ meant[2] \in Nat
  BY EvictionConstants DEF EvictionInvariant, TypeOK, Facts
<1>2. VictimsFollowMeant'
  <2>1. ASSUME NEW v \in victims, pc # "dead"
        PROVE  v[1] = target.pid /\ v[2] \in meant[2]..Start(target.pid)'
    BY <1>1, <2>1 DEF VictimsFollowMeant
  <2> QED BY <2>1 DEF VictimsFollowMeant
<1>3. BystanderIsHitOnce'
  BY DEF BystanderIsHitOnce
<1> QED BY <1>2, <1>3

\* Every step of press and of the machine keeps the victims in the order in which they
\* have had the tenant's pid, and at most one of them a bystander.
LEMMA VictimsAreKept ==
  ASSUME EvictionInvariant, VictimsFollowMeant, BystanderIsHitOnce, [Next]_vars
  PROVE  VictimsFollowMeant' /\ BystanderIsHitOnce'
<1> USE EvictionConstants
<1>0. \A q \in Pid : Start(q) \in Nat
  BY StartsAreCounted
<1>1. ASSUME UNCHANGED ran  PROVE \A q \in Pid : Start(q)' = Start(q)
  BY <1>1, Zenon DEF Start
<1>2. ASSUME NEW o, Return(o)
      PROVE  VictimsFollowMeant' /\ BystanderIsHitOnce'
  BY <1>2 DEF Return, NoTarget, VictimsFollowMeant, BystanderIsHitOnce
<1>3. ASSUME NEW tenant, NEW process, Press(tenant, process), pc = "idle"
      PROVE  VictimsFollowMeant' /\ BystanderIsHitOnce'
  BY <1>3 DEF Press, VictimsFollowMeant, BystanderIsHitOnce
<1>4. ASSUME NEW p \in Pid, Spawn(p) \/ Exit(p) \/ Reap(p)
      PROVE  VictimsFollowMeant' /\ BystanderIsHitOnce'
  <2>1. UNCHANGED <<target, meant, victims>> /\ pc' \in {pc, "dead"}
    BY <1>4 DEF Spawn, Exit, Reap, call
  <2>2. \A q \in Pid : Start(q)' \in Nat /\ Start(q)' >= Start(q)
    <3>1. CASE Spawn(p)
      <4>1. PICK i \in Image : ran' = [ran EXCEPT ![p] = Append(@, i)]
        BY <3>1 DEF Spawn
      <4>2. ran \in [Pid -> Seq(Image)]
        BY DEF EvictionInvariant, TypeOK
      <4>3. \A q \in Pid : Start(q)' = IF q = p THEN Start(q) + 1 ELSE Start(q)
        <5>1. ran'[p] = Append(ran[p], i) /\ \A q \in Pid \ {p} : ran'[q] = ran[q]
          BY <4>1, <4>2
        <5>2. Len(Append(ran[p], i)) = Len(ran[p]) + 1
          BY <4>2
        <5> QED BY <5>1, <5>2 DEF Start
      <4> QED BY <1>0, <4>3
    <3>2. CASE Exit(p) \/ Reap(p)
      <4>1. \A q \in Pid : Start(q)' = Start(q)
        BY <1>1, <3>2 DEF Exit, Reap
      <4> QED BY <1>0, <4>1
    <3> QED BY <1>4, <3>1, <3>2
  <2> QED BY <1>0, <2>1, <2>2, VictimsStay
<1>5. ASSUME NEW p \in Pid, NEW n \in 1..MaxBorn,
             NEW startedAt \in (1..MaxBorn) \cup {None},
             NEW image \in Image \cup {None}, Evict(p, n, startedAt, image)
      PROVE  VictimsFollowMeant' /\ BystanderIsHitOnce'
  BY <1>2, <1>3, <1>5, Zenon DEF Evict
<1>6. ASSUME NEW expected \in Image, EvictAnonymous(expected)
      PROVE  VictimsFollowMeant' /\ BystanderIsHitOnce'
  BY <1>2, <1>3, <1>6, Zenon DEF EvictAnonymous
<1>7. CASE SendTerm \/ SendKill
  <2>1. /\ pc \in {"term", "kill"} /\ pc' \in {"look", "sleep", "dead"}
        /\ UNCHANGED <<ran, target, meant>>
    BY <1>7 DEF SendTerm, SendKill, processes
  <2>2. victims' = victims \/ victims' = victims \cup {<<target.pid, Start(target.pid)>>}
    BY <1>7 DEF SendTerm, SendKill, Delivered, Undelivered
  <2>3. /\ target.pid = meant[1] /\ meant[2] \in 1..Start(meant[1])
        /\ meant[1] \in Pid
    BY <2>1 DEF EvictionInvariant, TargetDescribesMeant, TypeOK
  <2>4. Start(target.pid)' = Start(target.pid) /\ Start(target.pid) \in Nat
    BY <1>0, <1>1, <2>1, <2>3
  <2>5. VictimsFollowMeant'
    <3>1. \A v \in victims : v[1] = target.pid /\ v[2] \in meant[2]..Start(target.pid)
      BY <2>1 DEF VictimsFollowMeant
    <3>2. Start(target.pid) \in meant[2]..Start(target.pid)
      BY <2>3, <2>4
    <3>3. \A v \in victims' : v[1] = target.pid /\ v[2] \in meant[2]..Start(target.pid)
      BY <2>2, <3>1, <3>2
    <3> QED BY <2>1, <2>4, <3>3 DEF VictimsFollowMeant
  <2>6. BystanderIsHitOnce'
    <3> SUFFICES ASSUME target.startedAt # None
                 PROVE  \A v, w \in victims' \ {meant} : v = w
      BY <2>1 DEF BystanderIsHitOnce
    <3>1. victims \subseteq {meant}
      BY <2>1 DEF BystanderIsHitOnce
    <3> QED BY <2>2, <3>1
  <2> QED BY <2>5, <2>6
<1>8. CASE Look
  <2>1. CASE Return("Left") \/ Return("Stubborn")
    BY <1>2, <2>1
  <2>2. ASSUME NEW live \in LookUp(target.pid), Compare(target, live) # "Different",
               pc' = (IF Escalates THEN "kill" ELSE "sleep"),
               UNCHANGED <<target, meant, victims>>
        PROVE  VictimsFollowMeant' /\ BystanderIsHitOnce'
    <3>1. pc = "look" /\ UNCHANGED ran /\ pc' \in {"kill", "sleep"}
      BY <1>8, <2>2 DEF Look, processes
    <3>2. target.pid = meant[1] /\ meant \in Pid \X (0..MaxBorn)
          /\ target.startedAt \in {meant[2], None}
      BY <3>1 DEF EvictionInvariant, TargetDescribesMeant, TypeOK
    <3>3. Start(target.pid)' = Start(target.pid) /\ Start(target.pid) \in Nat
      BY <1>0, <1>1, <2>2, <3>1, <3>2
    <3>4. VictimsFollowMeant'
      BY <2>2, <3>1, <3>3 DEF VictimsFollowMeant
    <3>5. BystanderIsHitOnce'
      <4> SUFFICES ASSUME target.startedAt # None
                   PROVE  victims \subseteq {meant}
        BY <2>2 DEF BystanderIsHitOnce
      <4>1. live.startedAt = Start(target.pid)
        BY DEF LookUp
      <4>2. Start(target.pid) = meant[2]
        BY <2>2, <3>2, <3>3, <4>1, OtherStartIsDifferent
      <4>3. ASSUME NEW v \in victims  PROVE v = meant
        <5>1. v[1] = meant[1] /\ v[2] = meant[2]
          BY <3>1, <3>2, <3>3, <4>2 DEF VictimsFollowMeant
        <5>2. v \in Pid \X (1..MaxBorn)
          BY DEF EvictionInvariant, TypeOK
        <5> QED BY <3>2, <5>1, <5>2
      <4> QED BY <4>3
    <3> QED BY <3>4, <3>5
  <2> QED BY <1>8, <2>1, <2>2 DEF Look
<1>9. CASE Sleep \/ UNCHANGED vars
  <2>1. /\ UNCHANGED <<ran, target, meant, victims>>
        /\ pc' = pc \/ (pc = "sleep" /\ pc' = "look")
    BY <1>9 DEF Sleep, vars, processes, call
  <2>2. \A q \in Pid : Start(q)' \in Nat /\ Start(q)' >= Start(q)
    BY <1>0, <1>1, <2>1
  <2> QED BY <1>0, <2>1, <2>2, VictimsStay
<1> QED BY <1>4, <1>5, <1>6, <1>7, <1>8, <1>9, Zenon DEF Next

\* Whoever takes the pid of a tenant on its way out is signalled once and not killed after
\* it, on any machine and under any policy.
THEOREM BystandersAreHitOnce == Spec => [](VictimsFollowMeant /\ BystanderIsHitOnce)
<1>1. Init => VictimsFollowMeant /\ BystanderIsHitOnce
  BY DEF Init, VictimsFollowMeant, BystanderIsHitOnce, NoTarget
<1>2. EvictionInvariant /\ VictimsFollowMeant /\ BystanderIsHitOnce /\ [Next]_vars
        => VictimsFollowMeant' /\ BystanderIsHitOnce'
  BY VictimsAreKept
<1> QED BY <1>1, <1>2, EvictionIsConsistent, PTL DEF Spec

\* Where press is, what it has sent and whom it has reached agree at every moment.
THEOREM PressIsConsistent == Spec => []PressInvariant
<1>1. PressInvariant <=> TurnsAreCounted /\ VictimsFollowMeant
  BY DEF PressInvariant
<1> QED BY <1>1, TurnsAreAlwaysCounted, BystandersAreHitOnce, PTL
=============================================================================
