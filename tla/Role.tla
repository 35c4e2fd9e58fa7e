-------------------------------- MODULE Role --------------------------------
(***************************************************************************)
(* One role at the granularity of its system calls (src/src/role.rs):      *)
(* Role::claim, Tenancy::publish and the Drop of a Tenancy in the          *)
(* processes that fill the role, Role::occupancy in the threads that look  *)
(* at it.  The shared state is the lock file, its advisory lock, the claim *)
(* file, and one temporary file per process.  Any process may die between  *)
(* any two calls; any call may fail.                                       *)
(***************************************************************************)
CONSTANTS
  Process,     \* processes that may fill the role; each is one lifetime
  Foreign,     \* those of them that know nothing of claim records
  Onlooker,    \* threads that call Role::occupancy
  Run,         \* owner runs a record may name
  Departed,    \* a tenant that crashed before the first state
  Nobody,      \* the holder of a free lock
  Absent,      \* the content of a file that does not exist
  Unreadable,  \* any content Record::parse rejects, a half-written one included
  MayFail      \* the system calls whose errors are explored

Actor == Process \cup Onlooker
Record == [tenant : Process \cup {Departed}, run : Run]
Content == Record \cup {Absent, Unreadable}
Syscall == {"open", "lock", "create", "write", "rename", "unlink", "read"}

ASSUME RoleConstants ==
  /\ Process \cap Onlooker = {}
  /\ Foreign \subseteq Process
  /\ Nobody \notin Actor
  /\ Departed \notin Process
  /\ Absent \notin Record
  /\ Unreadable \notin Record \cup {Absent}
  /\ MayFail \subseteq Syscall

VARIABLES
  lockFile,    \* does <name>.lock exist?
  lock,        \* the actor whose open file holds the advisory lock
  recordFile,  \* what <name>.claim holds
  temporary,   \* temporary[p]: what <name>.claim.<pid>.tmp holds
  pc,          \* where each actor is, see the two sets below
  draft,       \* draft[p]: the record p is publishing
  said,        \* said[p]: the last record p published in its present tenancy;
               \* Absent while it is not in office (no Tenancy, or only a claim
               \* that has not returned yet)
  outcome,     \* outcome[p]: what p's last claim returned
  seen         \* seen[o]: what o's last probe returned

files == <<lockFile, lock, recordFile, temporary>>
vars == <<files, pc, draft, said, outcome, seen>>

(***************************************************************************)
(* Where a process can be.  "create", "write" and "rename" name the next   *)
(* call of publish, whether claim called it (said[p] = Absent) or the      *)
(* tenant did; "giveback" is the Drop on claim's error path, "closing" the *)
(* point in a Drop between remove_file and the close of the lock file.     *)
(* "foreign" is a tenant that took the lock and knows nothing of records.  *)
(***************************************************************************)
Publishing == {"create", "write", "rename"}
Holding == Publishing \cup {"tenant", "giveback", "closing", "foreign"}
ProcessPC == Holding \cup {"idle", "opened", "dead"}
OnlookerPC == {"idle", "opened", "free", "held"}
Outcome == {"None", "Ok", "Occupied", "Io", "Unpublishable"}
Occupancy == [is : {"Free", "HeldAnonymously"}] \cup [is : {"HeldBy"}, by : Record]
Seen == Occupancy \cup [is : {"None", "Io"}]

\* Every variable holds what the code could hold there; in particular whatever
\* identify_holder answers is an occupancy, never text that parse rejects.
TypeOK ==
  /\ lockFile \in BOOLEAN
  /\ lock \in Actor \cup {Nobody}
  /\ recordFile \in Content
  /\ temporary \in [Process -> Content]
  /\ pc \in [Actor -> ProcessPC \cup OnlookerPC]
  /\ \A p \in Process : pc[p] \in ProcessPC
  /\ \A o \in Onlooker : pc[o] \in OnlookerPC
  /\ draft \in [Process -> Record \cup {Absent}]
  /\ said \in [Process -> Record \cup {Absent}]
  /\ outcome \in [Process -> Outcome]
  /\ seen \in [Onlooker -> Seen]

SignedBy(p) == {r \in Record : r.tenant = p}

\* A directory nobody has used, or one a crash or an older install left behind.
Init ==
  /\ lockFile \in BOOLEAN
  /\ lock = Nobody
  /\ recordFile \in (IF lockFile THEN {Absent, Unreadable} \cup SignedBy(Departed)
                                 ELSE {Absent})
  /\ temporary = [p \in Process |-> Absent]
  /\ pc = [a \in Actor |-> "idle"]
  /\ draft = [p \in Process |-> Absent]
  /\ said = [p \in Process |-> Absent]
  /\ outcome = [p \in Process |-> "None"]
  /\ seen = [o \in Onlooker |-> [is |-> "None"]]

Goto(a, l) == pc' = [pc EXCEPT ![a] = l]
\* Closing the lock file gives up the lock only if it was this actor's.
FreedBy(a) == IF lock = a THEN Nobody ELSE lock
Returns(p, o) == outcome' = [outcome EXCEPT ![p] = o]

-----------------------------------------------------------------------------
(* Role::claim up to the lock.                                             *)

\* create_dir_all and open(create): an error of either is ClaimError::Io.
OpenLock(p) ==
  /\ pc[p] = "idle" /\ p \notin Foreign
  /\ \/ lockFile' = TRUE /\ Goto(p, "opened") /\ Returns(p, "None")
     \/ "open" \in MayFail /\ UNCHANGED <<lockFile, pc>> /\ Returns(p, "Io")
  /\ UNCHANGED <<lock, recordFile, temporary, draft, said, seen>>

\* Mutant of TryLock: an error of try_lock is taken for success.
TryLockErrorIsOk(p) ==
  /\ pc[p] = "opened"
  /\ \/ lock = Nobody /\ lock' = p
     \/ "lock" \in MayFail /\ UNCHANGED lock
  /\ Goto(p, "create")
  /\ \E r \in SignedBy(p) : draft' = [draft EXCEPT ![p] = r]
  /\ UNCHANGED <<lockFile, recordFile, temporary, said, outcome, seen>>

\* try_lock.  Whoever has the lock, a tenant or a probe, makes it WouldBlock.
TryLock(p) ==
  /\ pc[p] = "opened"
  /\ \/ /\ lock = Nobody
        /\ lock' = p
        /\ Goto(p, "create")
        /\ \E r \in SignedBy(p) : draft' = [draft EXCEPT ![p] = r]
        /\ UNCHANGED outcome
     \/ /\ lock # Nobody
        /\ Goto(p, "idle") /\ Returns(p, "Occupied")
        /\ UNCHANGED <<lock, draft>>
     \/ /\ "lock" \in MayFail
        /\ Goto(p, "idle") /\ Returns(p, "Io")
        /\ UNCHANGED <<lock, draft>>
  /\ UNCHANGED <<lockFile, recordFile, temporary, said, seen>>

-----------------------------------------------------------------------------
(* Tenancy::publish.                                                       *)

\* A tenant corrects its record.
Republish(p) ==
  /\ pc[p] = "tenant"
  /\ Goto(p, "create")
  /\ \E r \in SignedBy(p) : draft' = [draft EXCEPT ![p] = r]
  /\ UNCHANGED <<files, said, outcome, seen>>

\* Mutant of PublishFails: claim ignores the error and stays in the role.
FailureIsIgnored(p) ==
  draft' = [draft EXCEPT ![p] = Absent] /\ Goto(p, "tenant") /\ UNCHANGED outcome

\* publish returns Err.  Claim drops the Tenancy and reports Unpublishable; a
\* tenant keeps its role and the record it had.
PublishFails(p) ==
  /\ draft' = [draft EXCEPT ![p] = Absent]
  /\ IF said[p] = Absent
       THEN Goto(p, "giveback") /\ Returns(p, "Unpublishable")
       ELSE Goto(p, "tenant") /\ UNCHANGED outcome

\* Mutant of CreateTemporary: the file is renamed into place and then written.
RenameUnwritten(p) ==
  /\ pc[p] = "create"
  /\ temporary' = [temporary EXCEPT ![p] = Unreadable]
  /\ Goto(p, "rename")
  /\ UNCHANGED <<lockFile, lock, recordFile, draft, said, outcome, seen>>

\* File::create truncates what it finds.
CreateTemporary(p) ==
  /\ pc[p] = "create"
  /\ \/ /\ temporary' = [temporary EXCEPT ![p] = Unreadable]
        /\ Goto(p, "write")
        /\ UNCHANGED <<draft, outcome>>
     \/ "create" \in MayFail /\ PublishFails(p) /\ UNCHANGED temporary
  /\ UNCHANGED <<lockFile, lock, recordFile, said, seen>>

\* write_all and sync_all: the first may stop half-way, the second may fail with
\* all of the text written, and neither removes the file.
WriteTemporary(p) ==
  /\ pc[p] = "write"
  /\ \/ /\ temporary' = [temporary EXCEPT ![p] = draft[p]]
        /\ Goto(p, "rename")
        /\ UNCHANGED <<draft, outcome>>
     \/ /\ "write" \in MayFail
        /\ \E left \in {Unreadable, draft[p]} :
             temporary' = [temporary EXCEPT ![p] = left]
        /\ PublishFails(p)
  /\ UNCHANGED <<lockFile, lock, recordFile, said, seen>>

\* The rename that makes the record visible is also the moment publish, and a
\* claim that called it, returns Ok.  A failed one tidies up as far as it can.
Rename(p) ==
  /\ pc[p] = "rename"
  /\ \/ /\ recordFile' = temporary[p]
        /\ temporary' = [temporary EXCEPT ![p] = Absent]
        /\ said' = [said EXCEPT ![p] = draft[p]]
        /\ draft' = [draft EXCEPT ![p] = Absent]
        /\ Goto(p, "tenant") /\ Returns(p, "Ok")
     \/ /\ "rename" \in MayFail
        /\ \/ temporary' = [temporary EXCEPT ![p] = Absent]
           \/ "unlink" \in MayFail /\ UNCHANGED temporary
        /\ PublishFails(p)
        /\ UNCHANGED <<recordFile, said>>
  /\ UNCHANGED <<lockFile, lock, seen>>

-----------------------------------------------------------------------------
(* Drop for Tenancy: remove_file in the destructor, then the field _lock   *)
(* is dropped, which closes the file and with it gives up the lock.        *)

\* Mutant of RemoveRecord: the lock is closed first, then the record removed.
RemoveAfterClose(p) ==
  /\ \/ /\ pc[p] \in {"tenant", "giveback"}
        /\ lock' = FreedBy(p) /\ Goto(p, "closing")
        /\ UNCHANGED recordFile
     \/ /\ pc[p] = "closing"
        /\ recordFile' = Absent /\ Goto(p, "idle")
        /\ UNCHANGED lock
  /\ said' = [said EXCEPT ![p] = Absent]
  /\ UNCHANGED <<lockFile, temporary, draft, outcome, seen>>

\* Mutant of RemoveRecord: a claim that fails removes nothing.
RemoveOnlyAfterOffice(p) ==
  /\ pc[p] \in {"tenant", "giveback"}
  /\ recordFile' = IF pc[p] = "tenant" THEN Absent ELSE recordFile
  /\ said' = [said EXCEPT ![p] = Absent]
  /\ Goto(p, "closing")
  /\ UNCHANGED <<lockFile, lock, temporary, draft, outcome, seen>>

\* remove_file is best effort: its error is ignored.
RemoveRecord(p) ==
  /\ pc[p] \in {"tenant", "giveback"}
  /\ \/ recordFile' = Absent
     \/ "unlink" \in MayFail /\ UNCHANGED recordFile
  /\ said' = [said EXCEPT ![p] = Absent]
  /\ Goto(p, "closing")
  /\ UNCHANGED <<lockFile, lock, temporary, draft, outcome, seen>>

CloseLock(p) ==
  /\ pc[p] = "closing"
  /\ lock' = FreedBy(p)
  /\ Goto(p, "idle")
  /\ UNCHANGED <<lockFile, recordFile, temporary, draft, said, outcome, seen>>

-----------------------------------------------------------------------------
(* Role::occupancy.                                                        *)

Answers(o, occupancy) == seen' = [seen EXCEPT ![o] = occupancy]

\* open without create: a lock file that is not there is a role that is free.
ProbeOpen(o) ==
  /\ pc[o] = "idle"
  /\ \/ lockFile /\ Goto(o, "opened") /\ Answers(o, [is |-> "None"])
     \/ ~lockFile /\ Answers(o, [is |-> "Free"]) /\ UNCHANGED pc
     \/ "open" \in MayFail /\ Answers(o, [is |-> "Io"]) /\ UNCHANGED pc
  /\ UNCHANGED <<files, draft, said, outcome>>

\* try_lock: a free lock is the probe's own until the file is closed.
ProbeLock(o) ==
  /\ pc[o] = "opened"
  /\ \/ lock = Nobody /\ lock' = o /\ Goto(o, "free") /\ UNCHANGED seen
     \/ lock # Nobody /\ Goto(o, "held") /\ UNCHANGED <<lock, seen>>
     \/ "lock" \in MayFail /\ Goto(o, "idle") /\ Answers(o, [is |-> "Io"])
        /\ UNCHANGED lock
  /\ UNCHANGED <<lockFile, recordFile, temporary, draft, said, outcome>>

\* Mutant of ProbeClose: the probe answers and keeps the file open.
ProbeKeepsFile(o) ==
  /\ pc[o] = "free"
  /\ Goto(o, "idle") /\ Answers(o, [is |-> "Free"])
  /\ UNCHANGED <<files, draft, said, outcome>>

\* The file is dropped on return, and the lock with it.
ProbeClose(o) ==
  /\ pc[o] = "free"
  /\ lock' = FreedBy(o)
  /\ Goto(o, "idle") /\ Answers(o, [is |-> "Free"])
  /\ UNCHANGED <<lockFile, recordFile, temporary, draft, said, outcome>>

\* Mutant of Identified: whatever the claim file holds is handed on.
IdentifiedUnparsed == [is |-> "HeldBy", by |-> recordFile]

\* identify_holder: what the claim file says now, readable or not.
Identified == IF recordFile \in Record THEN [is |-> "HeldBy", by |-> recordFile]
                                       ELSE [is |-> "HeldAnonymously"]

IdentifyHolder(o) ==
  /\ pc[o] = "held"
  /\ \/ Answers(o, Identified)
     \/ "read" \in MayFail /\ Answers(o, [is |-> "HeldAnonymously"])
  /\ Goto(o, "idle")
  /\ UNCHANGED <<files, draft, said, outcome>>

-----------------------------------------------------------------------------
(* What the operating system and other programs do.                        *)

\* A process dies anywhere in its code: its files close, nothing else happens.
Crash(p) ==
  /\ pc[p] # "dead"
  /\ Goto(p, "dead")
  /\ lock' = FreedBy(p)
  /\ said' = [said EXCEPT ![p] = Absent]
  /\ draft' = [draft EXCEPT ![p] = Absent]
  /\ UNCHANGED <<lockFile, recordFile, temporary, outcome, seen>>

\* The process of an onlooker dies; another may look later.
CrashOnlooker(o) ==
  /\ pc[o] # "idle"
  /\ Goto(o, "idle")
  /\ lock' = FreedBy(o)
  /\ UNCHANGED <<lockFile, recordFile, temporary, draft, said, outcome, seen>>

\* A build that predates the convention takes the lock and leaves by exiting.
ForeignLock(p) ==
  /\ pc[p] = "idle" /\ p \in Foreign
  /\ lock = Nobody /\ lock' = p /\ lockFile' = TRUE
  /\ Goto(p, "foreign")
  /\ UNCHANGED <<recordFile, temporary, draft, said, outcome, seen>>

-----------------------------------------------------------------------------
\* The steps a call takes once it has begun.
ClaimStep(p) ==
  \/ TryLock(p) \/ CreateTemporary(p) \/ WriteTemporary(p) \/ Rename(p)
  \/ (pc[p] = "giveback" /\ RemoveRecord(p)) \/ CloseLock(p)

ProbeStep(o) == ProbeLock(o) \/ ProbeClose(o) \/ IdentifyHolder(o)

ProcessNext(p) ==
  \/ OpenLock(p) \/ TryLock(p)
  \/ Republish(p) \/ CreateTemporary(p) \/ WriteTemporary(p) \/ Rename(p)
  \/ RemoveRecord(p) \/ CloseLock(p)
  \/ Crash(p) \/ ForeignLock(p)

OnlookerNext(o) ==
  \/ ProbeOpen(o) \/ ProbeLock(o) \/ ProbeClose(o) \/ IdentifyHolder(o)
  \/ CrashOnlooker(o)

Next == (\E p \in Process : ProcessNext(p)) \/ (\E o \in Onlooker : OnlookerNext(o))

Spec == Init /\ [][Next]_vars

\* A call that has begun runs to its end; nobody has to begin one, to leave
\* office, or to die.
FairSpec ==
  /\ Spec
  /\ \A p \in Process : WF_vars(ClaimStep(p))
  /\ \A o \in Onlooker : WF_vars(ProbeStep(o))

-----------------------------------------------------------------------------
(* Properties.                                                             *)

InOffice(p) == said[p] # Absent

\* A tenant in office is never anonymous nor misnamed: from the return of claim
\* to the start of the Drop it holds the lock and the claim file carries the last
\* record it managed to publish, whatever other processes, failed corrections,
\* late destructors of earlier tenants and probes do meanwhile.
TenantIdentified ==
  \A p \in Process : InOffice(p) => lock = p /\ recordFile = said[p]

\* What makes TenantIdentified inductive: between the calls that take and free it
\* the lock is where the code believes it is, what is about to be renamed is the
\* record being published, and nothing of a tenancy survives its remove_file.
HolderHasLock == \A p \in Process : pc[p] \in Holding => lock = p

DraftIsOwn ==
  \A p \in Process :
    /\ pc[p] \in Publishing => draft[p] \in SignedBy(p)
    /\ pc[p] = "rename" => temporary[p] = draft[p]

OfficeIsNamed ==
  \A p \in Process :
    /\ pc[p] = "tenant" => InOffice(p)
    /\ InOffice(p) => /\ pc[p] \in Publishing \cup {"tenant"}
                      /\ said[p] \in SignedBy(p)
                      /\ recordFile = said[p]

DropLeavesNothing ==
  \A p \in Process :
    pc[p] = "closing" /\ "unlink" \notin MayFail => recordFile = Absent

ProbeIsUnanswered == \A o \in Onlooker : pc[o] # "idle" => seen[o].is = "None"

\* All of it together: what every step of every actor preserves.
RoleInvariant ==
  /\ TypeOK /\ HolderHasLock /\ DraftIsOwn /\ OfficeIsNamed
  /\ DropLeavesNothing /\ ProbeIsUnanswered

\* The claim file changes hands only under the lock, and only whole: a step that
\* changes it either removes it or puts a complete record of the process that
\* holds the lock in its place.
OnlyTheHolderWrites ==
  [][\E p \in Process : lock = p /\ recordFile' \in SignedBy(p) \cup {Absent}]_recordFile

\* A probe that finds the role held and reads the claim file while a tenant is in
\* office reports exactly that tenant's record, even though the lock may have
\* been somebody else's when the probe tried it.
ReadNamesTheTenant ==
  [][\A o \in Onlooker, p \in Process :
       pc[o] = "held" /\ seen'[o].is # "None" /\ InOffice(p) /\ "read" \notin MayFail
         => seen'[o] = [is |-> "HeldBy", by |-> said[p]]]_vars

\* A Drop that runs to its end leaves no record behind when the lock comes free,
\* on the error path of claim as well as at the end of a tenancy.
ReleaseLeavesNothing ==
  [][\A p \in Process :
       pc[p] = "closing" /\ pc'[p] = "idle" /\ "unlink" \notin MayFail
         => recordFile = Absent]_vars

\* This crate's own tenants pass through anonymity, they do not stay in it: one
\* that has the lock and is not named by the claim file is soon named, or gone.
AnonymityPasses ==
  \A p \in Process :
    (lock = p /\ p \notin Foreign /\ recordFile \notin SignedBy(p))
      ~> (lock # p \/ recordFile \in SignedBy(p))

\* A probe that took the free lock lets go of it.
ProbeLetsGo == \A o \in Onlooker : (lock = o) ~> (lock # o)

-----------------------------------------------------------------------------
(* The role implements the seat: whoever is in office is in the seat, under *)
(* the name the claim file gives.                                           *)

seatTenant == IF \E p \in Process : InOffice(p)
                THEN CHOOSE p \in Process : InOffice(p)
                ELSE Nobody
seatName == IF seatTenant = Nobody THEN Absent ELSE recordFile

S == INSTANCE Seat WITH tenant <- seatTenant, name <- seatName

\* Taking the role and publishing are one step to the outside: no behaviour of
\* the lock, the files and the crashes shows two tenants, a tenant without its
\* own name, or a name without its tenant.
ImplementsSeat == S!Spec
=============================================================================
