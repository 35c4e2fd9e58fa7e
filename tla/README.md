# Verification of `succession`

TLA+ modules, TLC runs and TLAPS proofs for the crate `succession`: one process
per role, bound to one run of its owner. Source paths in this project
(`src/src/role.rs`, `src/tests/role.rs`) count from the directory that holds the
checkout `src/`; comments in the modules that quote a doc comment use the path
inside the checkout (`src/role.rs:57`, `tests/role.rs:136`).

## The system

| Part | Source | State | Operations | Module |
|---|---|---|---|---|
| Role, Tenancy | `src/src/role.rs` | `<name>.lock` and its advisory lock, `<name>.claim`, `<name>.claim.<pid>.tmp` | `Role::claim`, `Role::occupancy`, `Tenancy::publish`, drop | `Role`, `Seat` |
| Tenant | `src/src/record.rs` | pid, start time, image of a process | `current`, `look_up`, `compare` | `Tenant` |
| Eviction | `src/src/eviction.rs` | locals of `press`; the process table | `evict`, `evict_anonymous` | `Eviction` |
| Verdict | `src/src/verdict.rs` | none | `verdict` | `Verdict` |
| Supervisor, Restart | `src/src/supervision.rs` | `delay`, `waiting_since` | `tick`, `next_delay` | `Supervisor` |
| Allegiance | `src/src/standing.rs` | a `OnceLock<Run>` | `new`, `to`, `observe` | `Allegiance`, `Oath` |
| Record text | `src/src/record.rs` | none | `to_text`, `parse` | `RecordText` |
| Tenancy used by several threads | `src/src/role.rs` | inodes and open files behind the names | `publish`, `identify_holder` | `Republish` |
| The parts together | `src/src/lib.rs` | owner runs, supervisors, helpers, one role | start and end of a run, handover, eviction | `Succession`, `Seat` |
| Identity | `src/src/identity.rs` | one `OnceLock<u64>` | `Run::mint` and conversions | model values |

How they interact. An owner runs a `Supervisor` on a thread. Each tick probes
the role, asks `verdict`, and starts a helper, waits, or reports who is in the
way. The helper calls `claim`, which takes the lock and publishes its record.
The owner answers a report with `evict` (a record is known) or `evict_anonymous`
(an image is known). The helper shows each owner that answers it to its
`Allegiance` and drops its `Tenancy` when told `Superseded`. Nothing but files,
an advisory lock, signals and the process table connects these processes.

What is hard in it, and what makes each part right:

- **Role.** Many processes may be inside the same two files, each call is its own
  system call, each may fail, and each process may die between two of them. The
  record must follow the lock: nobody in office is anonymous or misnamed, nobody
  removes another's record, a claim that fails leaves nothing.
- **Eviction.** Between a look at a pid and the signal to it the pid may be given
  to another process. Only the writer of the record may be signalled, *Left* must be
  true, a tenant must have been killed before it is given up, and killed once, and the
  call must return.
- **Supervisor.** The grace period is one clock for many tenants; the backoff is a
  sequence of doublings and resets; the loop must neither report too early nor wait
  for ever.
- **Record.** Every build in the tree reads what every other wrote. What is there must
  be read, what is not must not be made up, and one bad line must not pass for a fact.
- **Tenancy in several threads.** `publish` takes `&self` and names its temporary file
  after the process. Threads that meet there write one inode; what a reader sees must
  be whole again as soon as they no longer meet.
- **Succession.** Every part looks at a state the others change before it acts. A run
  that is up must get its helper into office whoever was in the way, and nobody may
  lose a helper to its own supervisor.
- **Allegiance.** `observe` takes `&self`, and its `get` and `set` are two steps.

`PROJECT.json` lists every component, the hazards with their lines, and where the
code and its documentation part ways (`findings`).

## Modules

**Seat** is what a role promises: a seat that is empty or taken and says who is in
it, `Take`, `Correct` and `Leave` each one step.

**Role** is the role at the granularity of system calls. `lock`, `lockFile`,
`recordFile` and `temporary` are the file system; `pc`, `draft`, `outcome` and `seen`
are the locals and results of the calls; `said` is a history variable, the last
record a process managed to publish in its present tenancy. `OpenLock`, `TryLock`,
`CreateTemporary`, `WriteTemporary`, `Rename` are `claim` and the `publish` in it;
`Republish` begins a correction; `RemoveRecord` and `CloseLock` are the drop, reached
from a tenancy as well as from the error path of `claim`; `ProbeOpen`, `ProbeLock`,
`ProbeClose` and `IdentifyHolder` are `occupancy`. `write_all` and `sync_all` are one
action, since nothing looks at the temporary file between them; the read of the
claim file is one action, since a rename replaces it whole. `Crash` closes a
process's files anywhere. `ForeignLock` is a tenant that knows nothing of records.
`MayFail` names the system calls whose errors are explored.

**Tenant** holds `Corroboration` and `Compare`. **Eviction** puts one caller's `evict`,
`evict_anonymous` and `press` into a process table: `Spawn`, `Exit` and `Reap` start
a process under a free pid, end it, and make it invisible. The n-th process of a pid
has start time n, so a start time tells any two apart. `Evict` takes a record some
process of the past has published, with such facts as it knew, and the image of any
live process may be unreadable. `LookUp` sees a process that has ended and was not
waited for. A signal may not be deliverable. `meant`, `sent`, `victims` and `reused`
are history variables. It is assumed that a caller is not asked to evict the very
record of itself (a supervisor is only told to evict runs that are not its own).

**Verdict** is the decision. **Supervisor** is one supervisor before tenants that
arrive, claim, publish, release and die as they like. The role is seen as `occupancy`
sees it: first the lock (`Probe`), then the claim file (`Read`). Time passes in `Tick`
in every state; each clock stops at the last value it is compared with, and a sleep
may last too long. A failing probe changes nothing and is a stuttering step.
`seated`, `sinceStart`, `sinceEnd` and `failures` are history variables.

**Oath** is what an Allegiance promises: every handshake is judged at one instant.
**Allegiance** has the `get` and the `set` of `observe` as separate steps of several
threads; `sworn` is what `Allegiance::to` was given, if it was `to`; `answer` and `began`
are history variables.

**RecordText** is `to_text` and `parse`. A text is a sequence of lines, a line a key and
a value; every line that `parse` passes over has the key `other`. `Number` is what a line
with a numeric key may say, all numbers up to `U64` and anything else; `Image` the paths.
`ParseLine` is one turn of the loop, `Progress` what is known after each turn, a recursive
function, and `Parse` its last value with the checks after it. `LastOf`, `Legible` and
`Recovered` say without a loop what reading a text should mean, and `Writable` which
records `to_text` is given.

**Loops** holds no model: it has the facts about loops that the proofs about `parse` and
about the delay of the supervisor need.

**Republish** is `publish` of several threads of one tenant, from the claim that makes the
`Tenancy` to its drop. `claim` and `temporary` are the inodes that the two names lead to,
`content` the texts, `file` what each thread has open. `Create` opens and truncates the
inode that has the name, or a new one; `Write` writes at the start of the inode that is
open, over whatever is in it by then; `Rename` and `Tidy` act on whatever has the name by
then. A text written over a longer one leaves that one's end, and since how long numbers
and paths are is not modelled, any end may be left that lies behind the run. `crowd`,
`damage` and `said` are history variables: who was not alone in `publish`, what that may
have done to the claim file since someone who was alone published, and the last record
published with success. A reader opens the file and reads it in two steps.

**Succession** puts the parts together as `lib.rs` and its examples do. `at` is where each
process is (`locked` has the lock and not yet its record, `office` both), `sup` where the
supervisor of each run is, `whom` the child it waits for or the writer of the record it
read. A supervisor's `Probe` takes the lock if it is free, `Read` reads the claim file
in a later step and decides with the `Decide` of module Verdict, and the eviction that
answers the report is a later step again. Each of these is one step where modules Role and
Eviction have many: it is assumed that a pid is not used again while a record or a
supervisor means its last process (`Unmeant`), which Eviction is about, and that a
signal ends a process. Helpers may be told `Superseded`, or end for reasons of their own,
at any time; none has to. Time is only whether the grace period is over.

The `MC...` modules hold symmetry sets and the definitions the `.cfg` files need;
`Supervisor` and `Succession` need neither and are run as they are.

## Runs

| Run | Instance | Shows |
|---|---|---|
| `role_safety` | two tenants, one foreign, one onlooker, two runs, every call may fail | `TenantIdentified`, `OnlyTheHolderWrites`, `ImplementsSeat`, and the inductive `RoleInvariant` |
| `role_calls` | the same with one run, clean-up works, fair calls | `ReadNamesTheTenant`, `ReleaseLeavesNothing`, `AnonymityPasses`, `ProbeLetsGo` |
| `eviction_safety` | the caller and two other pids, two processes per pid, two images, `Unconfirmed::Signal` | `SignalsOnlyTheWriter`, `SelfIsSpared`, `LeftMeansGone`, `StubbornWasKilled`, `KillsOnce`, `BystanderIsHitOnce`, `StepsComeNearer`, and `EvictionInvariant`, `PressInvariant` |
| `eviction_returns` | one other pid, a policy that never escalates, fair steps of `press` | `EvictReturns` |
| `eviction_nostart` | one other pid | violation: `NoStartTimeIsInconclusive` |
| `supervisor_loop` | two tenants, one other run, grace 3, poll 1, delays 1 to 3, a fair loop | `DelayIsExponential`, `GraceSinceStart`, `StartsAreSpaced`, `AnonymousIsReported`, `FreeRoleIsFilled`, and `SupervisorInvariant` |
| `supervisor_grace` | the same | violation: `GraceIsTheTenants` |
| `allegiance_threads` | three threads, two runs, two fingerprints, told its owner or not | `LaterCallsAgree`, `TurnedAwayForGood`, `ImplementsOath`, and `AllegianceInvariant` |
| `allegiance_current` | two threads | violation: `CurrentMeansTheOwner` |
| `republish_threads` | two threads, one reader, two records, twelve leftover texts, every call may fail | `ReadsWhatWasPublished`, `QuietIsLegible`, `ParseIsLastOfEach`, and `RepublishInvariant` |
| `succession_handover` | two runs, two helpers, two tenants of an older install that look like helpers, a fair system | `EvictionIsJust`, `ImplementsSeat`, `SuccessorIsServed`, `AnonymousLeaves`, and `SuccessionInvariant` |
| `succession_wedge` | the same, one tenant of an older install | violation: `LeftoverWedgesNothing` |

**Bounds.** Two tenants and an onlooker give every pair of actors that can meet in
the files (tenant and tenant, tenant and probe, tenant and foreign tenant), and a
third party in the middle; the proofs lift the safety part to any number. Two processes
per pid are the tenant and the one that takes its pid; `MaxBorn` bounds nothing else.
A deadline of 3 polls leaves room for a look before, at and after the escalation, and
`Late` for one that misses an instant. A grace of 3 ticks is longer than a poll and a
delay, so several tenants can come and go within it. A ceiling of 3 is not a power of
two, so the last doubling is cut off. Four inodes are as many as two threads and a reader
can keep apart (the two names, a file whose name was taken away, the file being read).
The two records differ in every fact that may be missing: one has a start time and a path
of two lines with a blank at its edge, the other no start time and a path that is no text;
the leftover texts lack keys, repeat them, hold unknown ones, and hold numbers at and past
the two ranges, which are 3 and 7 here. `Cut` bounds where a write that fails may stop:
before the first line, before the pid, before the image. Two runs are the one that ended
and the one that takes over, two helpers the orphan and its successor, two
tenants of an older install the holder of the lock and a sibling that cannot be told from
it by its image; a run starts once and each of an older install runs once, everything else
may go on for ever. The leftover texts of `Republish` name another pid than the tenant's,
so that none of them can pass for its record.

**Fairness.** `Role!FairSpec`: a call that has begun goes on, unless its process dies;
nobody has to begin one or to leave office. `Eviction!FairSpec`: the steps of `press`
go on. `Supervisor!FairSpec`: the caller's loop goes round, as the documentation of
`tick` asks, and time passes; tenants and the failure of `child.wait` are not fair. A probe
that fails (`src/src/supervision.rs:167`) changes nothing and is a stuttering step, here and
in `Succession`, so both `FairSpec`s suppose that a probe does not fail for ever: a
supervisor that cannot open the lock file reports, fills and evicts nothing.
`Succession!FairSpec`: a claim and a drop that have begun go on, the loop of a supervisor
goes round, and its grace period ends (weak fairness). Where the code may be unlucky for
ever - `spawn` fails each time, the lock is taken by a probe each time a helper tries, the
record cannot be written - strong fairness says that what is tried time and again works
at last; a machine on which it does not has no helper to hand over to. Tenants do not
have to leave, owners do not have to end, nobody has to crash.
No other process is assumed to do anything.

**Deadlock** is checked except in `Eviction`, where the caller may die and the bounded
supply of processes may run out, and in `Succession`, where all runs may be over.

**Violations.** Four runs each check one sentence of a doc comment or a test that the
code does not keep; `findings` in `PROJECT.json` quotes each. Next to each there is a
property that holds and says how far the code does keep it: a leftover is never read
while a tenant is in office (`ReadNamesTheTenant`), and a tenant of an older install is
made to leave if no leftover stands over it and no sibling of its image stays
(`AnonymousLeaves`); grace is at least counted from the last start (`GraceSinceStart`);
with a start time on record nobody else is signalled (`SignalsOnlyTheWriter`); an
Allegiance that was told its owner is exact (`ImplementsOath`).

With a sibling that stays, `running_from` finds two candidates, `evict_anonymous` answers
`Ambiguous` each time, and the holder is left alone. This is what `src/src/eviction.rs:125-127`
says and its test `siblings_that_cannot_be_told_apart_are_all_spared` checks, so it is no
finding; `Wedged` names it next to the leftover, and `SuccessorIsServed` and
`AnonymousLeaves` except both. Helpers that come and go, which run from the same image, and a
sibling that goes are not excepted.

Three more differences are visible in the runs that pass. The doc comment of `publish`
(`src/role.rs:146`) promises that a reader sees the previous record or the new one and that
a failure leaves the previous one; for threads that meet in `publish` neither holds (one
renames what another has truncated; one that is told an error has had its record
published), and `WholeUnlessCrowded` and `QuietIsLegible` say what is left of it. And a claim
is answered `Occupied` while a probe has a free lock for a moment, which `ProbeLock` does and
`ProbeLetsGo` and `SuccessorIsServed` show to pass. And `Stubborn`, "still running when the
deadline elapsed" (`src/eviction.rs:58`), may be said of a tenant that has ended and has not
been waited for, which `LookUp` sees as `look_up` does.

## Proofs

Eight modules hold theorems and lemmas, all for every value of the constants that
satisfies the named assumptions (`RoleConstants`, `EvictionConstants`,
`SupervisorConstants`, `AllegianceConstants`, `RecordTextConstants`,
`RepublishConstants`, `SuccessionConstants`). Every invariant and every action property
of the runs that pass is stated by a theorem.

- **RoleProofs.** `RoleInvariant` is inductive. `TenantIdentified` alone is not: it
  needs that the lock is held wherever the code believes so (`HolderHasLock`), that
  what is about to be renamed is the record being published (`DraftIsOwn`), and that an
  office ends before the record goes (`OfficeIsNamed`). From it follow
  `TenantsAreIdentified`, `HolderWrites`, `DropsAreClean`, `ReadsAreCurrent`, and
  `RoleImplementsSeat`, the refinement: a successful rename is `Take` or `Correct`,
  `RemoveRecord` and `Crash` of a tenant are `Leave`, everything else is a stutter.
- **EvictionProofs.** `EvictionInvariant`: `press` was given facts of the process
  that is meant; in the two states before a signal the pid has not changed hands since
  the last look, unless `reused` says so; the caller is not meant; the escalation is in
  time. From it: `OnlyTheWriterIsSignalled`, `CallerIsSpared`, `LeftIsTrue`,
  `StubbornIsKilledFirst`. Two lemmas about `Compare` carry the argument: a start time
  both sides know refutes alone, and facts that agree never make a process different;
  `MoreFactsNeverAcquit` says of `Compare` that more facts never turn a refutation around
  nor a confirmation into doubt.
  `PressInvariant` is a second invariant, of one call. Its part `TurnsAreCounted` says when
  nothing has been waited for, when time is left, and that a kill is remembered by
  `escalated`; its part `VictimsFollowMeant`, that those who were signalled have had the
  tenant's pid from the tenant on, which with a start time on record makes
  `BystanderIsHitOnce` inductive (`BystandersAreHitOnce`): a look that goes on has found the
  tenant under its pid, so nobody after it can have been hit yet. From the first part
  `OneKillPerCall`, and `PressHasAnEnd`: `Remaining`, the turns until the deadline and the
  place in a turn, is a natural number that every step of `press` lowers and that no step of
  another process touches, unless it ends the caller. It is the variant of `EvictReturns`;
  what is left to TLC is that fair steps are taken.
- **SupervisorProofs.** `SupervisorInvariant`: a wait is never older than the last
  start, and what is left of a backoff makes up for what has passed of it. From it:
  `GraceFollowsStart`, `StartsKeepTheirDistance`. `DelayGrowsExponentially` is inductive
  with it: doubling a delay that has been cut off at the ceiling and cutting it off again
  loses nothing. That `doubled`, a recursive function, has a value for every number of
  failures is an instance of `Loops`.
- **Loops.** The induction theorems of the library take an operator, which these provers
  cannot instantiate. So induction is stated of a set: one that has 0 and with each number
  the next has them all (`InductionOnTurns`, from the well-foundedness of the numbers), and a
  function that is to take each value from the one before exists (`HistoryExists`) and is the
  one a recursive definition names.
- **RecordTextProofs.** `ReadToTheEnd`: after each turn of the loop, what is known of a key is
  what the last of its lines so far says, as long as all numbers were numbers, and there is
  an error from the first on that was none. From it `LastLineOfEachKeyCounts`, for texts of any length,
  and `WrittenIsRead`: `parse` gives back what `to_text` was given, but for what `Recovered`
  names.
- **AllegianceProofs.** `AllegianceInvariant`: a call that saw the cell unset began
  before it was set, an owner that was told stays, and who was turned away came after an
  owner that stays. From it `LaterCallsAgreeAlways`, `TurnedAwayStayAway`, and
  `ToldAllegianceIsAnOath`, the refinement for an Allegiance that was told its owner.
- **RepublishProofs.** `RepublishInvariant`: `WholeUnlessCrowded` alone is not inductive; it
  needs that a thread that is alone in `publish` has an inode no one else has open, with
  nothing or all of its draft in it (`LoneFile`), that the threads in `publish` that are not
  in `crowd` are alone (`CrowdIsKnown`), and that the two names lead to two inodes
  (`FilesAreApart`). That a reader keeps the record it opened (`ReaderHasRecord`) rests on
  the same: nobody has a published inode open for writing. Of a crowd, `FilesAreSound` says
  what holds until a write of it fails: whatever is in a file that may still be renamed or
  written over can be read and names the tenant, or it is empty and somebody is about to
  write it; what a write leaves of a longer text behind its own is again such a text's end.
  With the theorems about the text, `OnlookersReadWhatWasPublished`, `ACrowdLeavesARecord`
  and `AnyFileIsParsedByItsLastLines` follow.
- **SuccessionProofs.** `SuccessionInvariant`: the lock is where the helpers and the probes
  believe it is, whoever is in office is the one the file names, a supervisor whose child
  lives waits for it, and whom it means to evict by record served another run. From it
  `EvictionsAreJust`, and `SuccessionImplementsSeat`, the refinement: `Publish` is `Take`,
  `RemoveRecord` and the end of a helper in office are `Leave`, the rest is a stutter.

Only model-checked: the liveness properties (`AnonymityPasses`, `ProbeLetsGo`,
`EvictReturns`, `AnonymousIsReported`, `FreeRoleIsFilled`, `SuccessorIsServed`,
`AnonymousLeaves`), because fairness and ENABLED are out of the prover's reach. The proofs
about `Supervisor` cover a base of zero, its runs do not; they bound the delay by the
larger of base and ceiling, so that doubling it overflows only if one of the two is above
half of what a `Duration` holds.

A note on the prover. The SMT translation of tlapm 1.4.5 takes `DOMAIN f = 1 .. n` to mean
`Len(f) = n` for every value and not for sequences only, so an obligation in which `Len` or
`\o` occurs and a set is mistaken for a function could be proved wrongly. All proofs here
have also been checked with that axiom restricted to functions from `1 .. n`.

## Not modelled, and why

- A path with a line break in it and a key of the record after that: `parse` would read
  that line as a fact. `Writable`, and with it `RepublishConstants`, excludes it; other line
  breaks are modelled.
- Reads and writes of a few bytes that another call interrupts: a read sees one state of a
  file and `write_all` is one write that succeeds or stops between two lines. The tenants
  of other processes are in `Role`, not in `Republish`.
- In `Succession`: pids that are used again, signals that fail and probes that fail, which
  `Eviction` and `Supervisor` have; two owners that stay up, of which nothing good can be
  said, since each evicts the other's helper as often as it is started.
- `Run::mint`: runs are distinct values; that two draws differ is only probable.
- The panic when `Duration` overflows in `next_delay`, and how fast a loop spins whose
  probe fails without a sleep: a failed probe changes nothing the model has.
- An image whose path the operating system reports differently after the file was
  moved, and a start time in whole seconds shared by two processes of one pid.
- Formatting, `serde`, errors' `source`, continuous integration.

## Plan

The order follows what a failure would cost: the role first, then what kills
processes, then what decides, then what asks. Done: `Seat`, `Role` and `RoleProofs`;
`Tenant`, `Eviction` and `EvictionProofs`; `Verdict`, `Supervisor` and
`SupervisorProofs`; `Oath`, `Allegiance` and `AllegianceProofs`; `Succession` and
`SuccessionProofs`; `Loops`, `RecordText`, `RecordTextProofs`, `Republish` and
`RepublishProofs`. Left, in order:

1. The variants of the other loops, as `PressHasAnEnd` is that of `press`: how far a claim, a
   probe and a wait for an anonymous tenant are from their ends.
2. A `Succession` in which helpers keep an `Allegiance` and pids are used again, if a larger
   instance turns out to be within TLC's reach.
