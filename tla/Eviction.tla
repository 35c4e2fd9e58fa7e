------------------------------ MODULE Eviction ------------------------------
(***************************************************************************)
(* One caller that evicts (src/src/eviction.rs): evict with a record,      *)
(* evict_anonymous with an image, and press, which both end in, against a  *)
(* process table that keeps changing: processes start, end, linger after   *)
(* their end, and their pids are used again between any two steps.         *)
(***************************************************************************)
EXTENDS Tenant, Naturals, Sequences, FiniteSets

CONSTANTS
  Pid,            \* the process ids of the machine
  Self,           \* the pid of the caller
  Image,          \* executable images
  MaxBorn,        \* bound: how many processes may have had one pid
  Unconfirmed,    \* Policy::unconfirmed: "Refuse" or "Signal"
  EscalateAfter,  \* Policy::escalate_after, or None
  Deadline,       \* Policy::deadline
  Poll,           \* Policy::poll
  Late            \* how much longer than asked a sleep may last

ASSUME EvictionConstants ==
  /\ Self \in Pid
  /\ MaxBorn \in Nat /\ None \notin Nat /\ None \notin Image
  /\ Unconfirmed \in {"Refuse", "Signal"}
  /\ EscalateAfter \in Nat \cup {None}
  /\ Deadline \in Nat /\ Poll \in Nat \ {0} /\ Late \in Nat

VARIABLES
  ran,        \* ran[p]: the images of the processes that have had pid p, oldest
              \* first; the n-th one has start time n, so start times tell them apart
  status,     \* status[p]: what has become of the last of them
  pc,         \* where the caller is: "idle", the next step of press, or "dead"
  target,     \* the tenant press was given
  meant,      \* <<pid, start time>> of the process that is to leave
  waited,     \* time since press sent its first signal, up to Deadline
  escalated,  \* press's flag of that name
  outcome,    \* what the last call returned
  sent,       \* the signals the current call has sent
  victims,    \* the processes they have reached
  reused      \* did target's pid get a new process since press last looked?

processes == <<ran, status>>
call == <<pc, target, meant, waited, escalated, outcome, sent, victims>>
vars == <<processes, call, reused>>

Facts == [pid : Pid, startedAt : (1..MaxBorn) \cup {None}, image : Image \cup {None}]
NoTarget == [pid |-> Self, startedAt |-> None, image |-> None]
Outcome == {"None", "AlreadyGone", "Refused", "NoCandidate", "Ambiguous", "Left",
            "Stubborn"}

Start(p) == Len(ran[p])
Visible(p) == status[p] # "gone"
Running(p) == status[p] = "running"

\* Every variable holds what the code could hold there.
TypeOK ==
  /\ ran \in [Pid -> Seq(Image)] /\ \A p \in Pid : Start(p) \in 0..MaxBorn
  /\ status \in [Pid -> {"gone", "running", "ended"}]
  /\ \A p \in Pid : Visible(p) => Start(p) > 0
  /\ pc \in {"idle", "term", "look", "kill", "sleep", "dead"}
  /\ target \in Facts
  /\ meant \in Pid \X (0..MaxBorn)
  /\ waited \in 0..Deadline
  /\ escalated \in BOOLEAN
  /\ outcome \in Outcome
  /\ sent \subseteq {"Term", "Kill"}
  /\ victims \subseteq Pid \X (1..MaxBorn)
  /\ reused \in BOOLEAN

\* The caller runs; its pid may have had another process before.
Init ==
  /\ \E earlier \in {<<>>} \cup {<<i>> : i \in Image}, image \in Image :
       ran = [p \in Pid |-> IF p = Self THEN Append(earlier, image) ELSE <<>>]
  /\ Start(Self) <= MaxBorn
  /\ status = [p \in Pid |-> IF p = Self THEN "running" ELSE "gone"]
  /\ pc = "idle" /\ target = NoTarget /\ meant = <<Self, 0>>
  /\ waited = 0 /\ escalated = FALSE /\ outcome = "None"
  /\ sent = {} /\ victims = {} /\ reused = FALSE

-----------------------------------------------------------------------------
(* The rest of the machine.                                                *)

Spawn(p) ==
  /\ ~ Visible(p) /\ Start(p) < MaxBorn
  /\ \E i \in Image : ran' = [ran EXCEPT ![p] = Append(@, i)]
  /\ status' = [status EXCEPT ![p] = "running"]
  /\ reused' = (reused \/ p = target.pid)
  /\ UNCHANGED call

\* A process ends, the caller perhaps in the middle of its call.  It stays
\* visible until whoever started it has looked.
Exit(p) ==
  /\ Running(p)
  /\ status' = [status EXCEPT ![p] = "ended"]
  /\ pc' = IF p = Self THEN "dead" ELSE pc
  /\ UNCHANGED <<ran, target, meant, waited, escalated, outcome, sent, victims, reused>>

Reap(p) ==
  /\ status[p] = "ended"
  /\ status' = [status EXCEPT ![p] = "gone"]
  /\ UNCHANGED <<ran, call, reused>>

-----------------------------------------------------------------------------
(* What the caller can see.                                                *)

\* Tenant::look_up of a visible pid; not every image can be read.
LookUp(p) == {[pid |-> p, startedAt |-> Start(p), image |-> i] :
                i \in {ran[p][Start(p)], None}}

\* Mutant of RunningFrom: the caller counts itself.
RunningFromAnyone(expected) == {p \in Pid : Visible(p) /\ ran[p][Start(p)] = expected}

\* running_from: the visible processes of an image, the caller left out.
RunningFrom(expected) ==
  {p \in Pid \ {Self} : Visible(p) /\ ran[p][Start(p)] = expected}

-----------------------------------------------------------------------------
(* evict and evict_anonymous up to press.                                  *)

Return(o) ==
  /\ pc' = "idle" /\ target' = NoTarget /\ outcome' = o
  /\ waited' = 0 /\ escalated' = FALSE /\ sent' = {} /\ victims' = {}
  /\ UNCHANGED meant

\* The call of press: what it will do is decided by tenant alone.
Press(tenant, process) ==
  /\ pc' = "term" /\ target' = tenant /\ meant' = process
  /\ outcome' = "None" /\ reused' = FALSE
  /\ UNCHANGED <<waited, escalated, sent, victims>>

\* evict of a record that the n-th process of pid p has published, with such
\* facts as it knew; the caller's own record is not among those it is given.
Evict(p, n, startedAt, image) ==
  /\ pc = "idle"
  /\ n <= Start(p) /\ <<p, n>> # <<Self, Start(Self)>>
  /\ startedAt \in {n, None} /\ image \in {ran[p][n], None}
  /\ LET recorded == [pid |-> p, startedAt |-> startedAt, image |-> image] IN
     \/ ~ Visible(p) /\ Return("AlreadyGone") /\ UNCHANGED reused
     \/ /\ Visible(p)
        /\ \E live \in LookUp(p) :
             LET sameness == Compare(recorded, live) IN
             IF sameness = "Same" \/ (sameness = "Inconclusive" /\ Unconfirmed = "Signal")
               THEN Press(recorded, <<p, n>>)
               ELSE Return("Refused") /\ UNCHANGED reused
  /\ UNCHANGED processes

\* The walk over all processes sees the images it can read; sole refuses every
\* choice that is not forced.
EvictAnonymous(expected) ==
  /\ pc = "idle"
  /\ \E candidates \in SUBSET RunningFrom(expected) :
       \/ candidates = {} /\ Return("NoCandidate") /\ UNCHANGED reused
       \/ \E p \in candidates :
            IF candidates = {p}
              THEN Press([pid |-> p, startedAt |-> Start(p), image |-> expected],
                         <<p, Start(p)>>)
              ELSE Return("Ambiguous") /\ UNCHANGED reused
  /\ UNCHANGED processes

-----------------------------------------------------------------------------
(* press.                                                                  *)

\* signal: it reaches whatever runs under the pid by now, if anything may be
\* signalled at all.
Delivered == Running(target.pid) /\ victims' = victims \cup {<<target.pid, Start(target.pid)>>}
Undelivered == UNCHANGED victims

\* Mutant of SendTerm: the flag is read as "escalation is wanted".
SendTermEscalated ==
  /\ pc = "term"
  /\ Delivered \/ Undelivered
  /\ waited' = 0 /\ escalated' = (EscalateAfter # None) /\ pc' = "look"
  /\ sent' = {"Term"}
  /\ UNCHANGED <<processes, target, meant, outcome, reused>>

SendTerm ==
  /\ pc = "term"
  /\ Delivered \/ Undelivered
  /\ waited' = 0 /\ escalated' = (EscalateAfter = None) /\ pc' = "look"
  /\ sent' = {"Term"}
  /\ UNCHANGED <<processes, target, meant, outcome, reused>>

\* Mutant of Escalates: the flag is not looked at.
EscalatesAgain == waited >= EscalateAfter

Escalates == ~ escalated /\ waited >= EscalateAfter

\* Mutant of GivesUp: an escalation is waited for before giving up.
GivesUpOnlyEscalated == waited >= Deadline /\ escalated /\ EscalateAfter # None

GivesUp == waited >= Deadline

\* Mutant of Look: any process under the pid is taken for the tenant.
LookAtPidOnly ==
  /\ pc = "look"
  /\ IF ~ Visible(target.pid) THEN Return("Left")
     ELSE IF GivesUp THEN Return("Stubborn")
     ELSE /\ pc' = IF Escalates THEN "kill" ELSE "sleep"
          /\ escalated' = (escalated \/ Escalates)
          /\ UNCHANGED <<target, meant, waited, outcome, sent, victims>>
  /\ reused' = FALSE
  /\ UNCHANGED processes

\* Has the tenant gone?  Its pid is free, or what runs there is somebody else.
Look ==
  /\ pc = "look"
  /\ \/ ~ Visible(target.pid) /\ Return("Left")
     \/ /\ Visible(target.pid)
        /\ \E live \in LookUp(target.pid) :
             IF Compare(target, live) = "Different" THEN Return("Left")
             ELSE IF GivesUp THEN Return("Stubborn")
             ELSE /\ pc' = IF Escalates THEN "kill" ELSE "sleep"
                  /\ escalated' = (escalated \/ Escalates)
                  /\ UNCHANGED <<target, meant, waited, outcome, sent, victims>>
  /\ reused' = FALSE
  /\ UNCHANGED processes

\* SIGKILL ends a process; as with any signal it may not be deliverable.
SendKill ==
  /\ pc = "kill"
  /\ \/ Delivered /\ status' = [status EXCEPT ![target.pid] = "ended"]
        /\ pc' = IF target.pid = Self THEN "dead" ELSE "sleep"
     \/ Undelivered /\ UNCHANGED status /\ pc' = "sleep"
  /\ sent' = sent \cup {"Kill"}
  /\ UNCHANGED <<ran, target, meant, waited, escalated, outcome, reused>>

\* Mutant of Sleep: the clock of press is started anew in each turn.
SleepForgets ==
  /\ pc = "sleep"
  /\ \E slept \in Poll..(Poll + Late) :
       waited' = IF slept < Deadline THEN slept ELSE Deadline
  /\ pc' = "look"
  /\ UNCHANGED <<processes, target, meant, escalated, outcome, sent, victims, reused>>

\* thread::sleep lasts at least as long as asked; the loop goes round.
Sleep ==
  /\ pc = "sleep"
  /\ \E slept \in Poll..(Poll + Late) :
       waited' = IF waited + slept < Deadline THEN waited + slept ELSE Deadline
  /\ pc' = "look"
  /\ UNCHANGED <<processes, target, meant, escalated, outcome, sent, victims, reused>>

PressStep == SendTerm \/ Look \/ SendKill \/ Sleep

Next ==
  \/ \E p \in Pid : Spawn(p) \/ Exit(p) \/ Reap(p)
  \/ \E p \in Pid, n \in 1..MaxBorn, startedAt \in (1..MaxBorn) \cup {None},
        image \in Image \cup {None} : Evict(p, n, startedAt, image)
  \/ \E expected \in Image : EvictAnonymous(expected)
  \/ SendTerm \/ Look \/ SendKill \/ Sleep

Spec == Init /\ [][Next]_vars

\* A call that has begun goes on.
FairSpec == Spec /\ WF_vars(PressStep)

-----------------------------------------------------------------------------
(* Properties.                                                             *)

Signalled == victims' \ victims
Returns(o) == pc = "look" /\ pc' = "idle" /\ outcome' = o

\* A tenant whose start time is on record is the only process that is ever
\* signalled, first and later, as long as its pid is not used again in the one
\* gap the code has: between a look at the pid and the signal that follows.
SignalsOnlyTheWriter ==
  [][\A v \in Signalled : v = meant \/ reused \/ target.startedAt = None]_vars

\* The caller never signals itself while it presses a tenant whose start time is
\* known, though helper and caller may be one image and the tenant's pid, since
\* it published, the caller's own.
SelfIsSpared ==
  [][\A v \in Signalled : v[1] = Self => target.startedAt = None]_vars

\* Left is never said of a process that still runs, whatever has become of its
\* pid and however little could be seen of it.
LeftMeansGone ==
  [][Returns("Left") => ~ (Running(meant[1]) /\ Start(meant[1]) = meant[2])]_vars

\* Giving up comes after escalating: where the policy leaves room for one late
\* wake-up between the two instants, Stubborn is not said of a tenant that has
\* only been asked politely.
StubbornWasKilled ==
  [][Returns("Stubborn") /\ EscalateAfter # None
       /\ EscalateAfter + Poll + Late <= Deadline => "Kill" \in sent]_vars

\* One call sends SIGKILL once at most, however long it goes on looking: the flag,
\* not the time, says whether it has been sent.
KillsOnce == pc = "kill" => "Kill" \notin sent

\* The gap between a look and a signal cannot be closed, but what falls into it is small:
\* a process that has taken the pid of a tenant whose start time is known gets the one
\* signal that was on its way.  The next look tells it from the tenant, so it is not
\* pressed on: who was asked in error is not killed, and it never happens twice in a call.
BystanderIsHitOnce ==
  target.startedAt # None =>
    /\ \A v, w \in victims \ {meant} : v = w
    /\ pc \in {"term", "kill"} => victims \subseteq {meant}

\* What press may have left to do: its turns until the deadline, and where it is in one.
Remaining ==
  IF pc \in {"idle", "dead"} THEN 0
  ELSE 4 * (Deadline - waited) + [term |-> 4, look |-> 3, kill |-> 2, sleep |-> 1][pc]

\* Whatever the tenant, the machine and the clock do, each step of press leaves less of
\* it to do, and nobody else's gives it more: the loop ends if it goes on.
StepsComeNearer == [][pc # "idle" => Remaining' < Remaining \/ UNCHANGED call]_vars

\* A call returns, whatever the tenant does, unless its caller dies.
EvictReturns == (pc # "idle") ~> (pc \in {"idle", "dead"})

\* The strengthening that makes the first three inductive: what press was given
\* are facts of the process that is meant, and the pid has not changed hands
\* since the last look unless reused says so.
TargetDescribesMeant ==
  pc \notin {"idle", "dead"} =>
    /\ target.pid = meant[1] /\ meant[2] \in 1..Start(meant[1])
    /\ target.startedAt \in {meant[2], None}
    /\ target.image \in {ran[meant[1]][meant[2]], None}

LookIsFresh ==
  pc \in {"term", "kill"} /\ ~ reused /\ target.startedAt # None =>
    Start(target.pid) = meant[2]

SelfIsNotMeant ==
  /\ pc # "dead" => Running(Self)
  /\ pc \notin {"idle", "dead"} => meant # <<Self, Start(Self)>>
  /\ pc \in {"term", "kill"} /\ target.startedAt # None => target.pid # Self

\* For StubbornWasKilled: an escalation that is due is never slept over.
EscalationInTime ==
  EscalateAfter # None =>
    /\ pc = "kill" => escalated
    /\ pc \in {"look", "sleep"} /\ escalated => "Kill" \in sent
    /\ pc = "sleep" /\ ~ escalated => waited < EscalateAfter
    /\ pc = "look" /\ ~ escalated => waited < EscalateAfter + Poll + Late

\* For KillsOnce and StepsComeNearer: who has been sent a SIGKILL is not sent another,
\* and who sleeps has time left.
TurnsAreCounted ==
  /\ pc \in {"idle", "term"} => waited = 0
  /\ pc \in {"kill", "sleep"} => waited < Deadline
  /\ "Kill" \in sent => escalated /\ pc \in {"look", "sleep", "dead"}
  /\ EscalateAfter = None => pc # "kill" /\ (pc \in {"look", "sleep"} => escalated)

\* For BystanderIsHitOnce: all that press has signalled has had the tenant's pid, from
\* the tenant on.
VictimsFollowMeant ==
  /\ pc \in {"idle", "term"} => victims = {}
  /\ pc # "dead" =>
       \A v \in victims : v[1] = target.pid /\ v[2] \in meant[2]..Start(target.pid)

\* What is true of one call of press, between any two steps of it.
PressInvariant == TurnsAreCounted /\ VictimsFollowMeant

\* All of it together: what every step of the caller and of the machine preserves.
EvictionInvariant ==
  TypeOK /\ TargetDescribesMeant /\ LookIsFresh /\ SelfIsNotMeant /\ EscalationInTime

(* What a comment says and the code does not keep.                         *)

\* "The pid and the executable path -- which leaves an evictor at
\* Sameness::Inconclusive" (src/record.rs:31): under Unconfirmed::Refuse a record
\* without a start time never gets anyone signalled.
NoStartTimeIsInconclusive ==
  Unconfirmed = "Refuse" => (pc = "term" => target.startedAt # None)
=============================================================================
