----------------------------- MODULE Republish ------------------------------
(***************************************************************************)
(* One tenant that publishes from several threads: Tenancy::publish takes  *)
(* &self (src/src/role.rs), and the temporary file is named after the      *)
(* process alone.  Files are seen as the system keeps them: a name leads   *)
(* to an inode, an open file keeps its inode, whatever the name leads to.  *)
(* The lock is the tenant's throughout; module Role has the others.        *)
(***************************************************************************)
EXTENDS RecordText

CONSTANTS
  Thread,    \* threads of the tenant
  Reader,    \* threads elsewhere that are in identify_holder
  Inode,     \* files the directory has room for
  Record,    \* what the threads may publish
  Leftover,  \* texts a claim file may hold before: of other builds, or damaged
  Cut,       \* the numbers of lines after which a write that fails may stop
  MayFail    \* the system calls whose errors are explored

Syscall == {"create", "write", "sync", "rename", "unlink"}

ASSUME RepublishConstants ==
  /\ Nothing \notin Inode \cup Record
  /\ \A r \in Record : Writable(r)
  /\ Leftover \subseteq Text
  /\ Cut \subseteq Nat
  /\ MayFail \subseteq Syscall

VARIABLES
  claim,      \* the inode that <name>.claim leads to
  temporary,  \* the inode that <name>.claim.<pid>.tmp leads to
  content,    \* content[i]: the text in inode i
  at,         \* at[t]: where thread t is
  file,       \* file[t]: the inode thread t has open
  draft,      \* draft[t]: the record thread t is publishing
  said,       \* the record of the last publish that returned Ok in this tenancy
  crowd,      \* the threads in publish that were not alone there all the time
  damage,     \* what a crowd may have done to the claim file since a thread that
              \* was alone published: "none", "mixed", "torn"
  look        \* look[o]: the inode o has open, and the record it should find there

vars == <<claim, temporary, content, at, file, draft, said, crowd, damage, look>>
private == <<said, crowd, damage, look>>

Place == {"idle", "create", "write", "sync", "rename", "tidy", "giveback"}
Busy == {t \in Thread : at[t] # "idle"}

TypeOK ==
  /\ claim \in Inode \cup {Nothing}
  /\ temporary \in Inode \cup {Nothing}
  /\ content \in [Inode -> Text]
  /\ at \in [Thread -> Place]
  /\ file \in [Thread -> Inode \cup {Nothing}]
  /\ draft \in [Thread -> Record \cup {Nothing}]
  /\ said \in Record \cup {Nothing}
  /\ crowd \subseteq Thread
  /\ damage \in {"none", "mixed", "torn"}
  /\ look \in [Reader -> [file : Inode \cup {Nothing}, due : Record \cup {Nothing}]]

\* A directory before a claim, with what an earlier tenant left in it.
Init ==
  /\ claim \in Inode \cup {Nothing} /\ temporary \in Inode \cup {Nothing}
  /\ claim # Nothing => claim # temporary
  /\ \E text \in Leftover :
       content = [i \in Inode |-> IF i \in {claim, temporary} THEN text ELSE <<>>]
  /\ at = [t \in Thread |-> "idle"]
  /\ file = [t \in Thread |-> Nothing]
  /\ draft = [t \in Thread |-> Nothing]
  /\ said = Nothing /\ crowd = {} /\ damage = "none"
  /\ look = [o \in Reader |-> [file |-> Nothing, due |-> Nothing]]

Goto(t, place) == at' = [at EXCEPT ![t] = place]
Opens(t, i) == file' = [file EXCEPT ![t] = i]
Drafts(t, r) == draft' = [draft EXCEPT ![t] = r]

\* An inode is there as long as a name or an open file leads to it.
Used == {claim, temporary} \cup {file[t] : t \in Thread} \cup {look[o].file : o \in Reader}
Holds(text) == content' = [i \in Inode |-> IF i \in Used' THEN text[i] ELSE <<>>]

-----------------------------------------------------------------------------
\* Role::claim has the lock and calls publish before anyone else has the Tenancy;
\* a thread that has a share of the Tenancy calls publish when it likes.
Begin(t) ==
  /\ at[t] = "idle" /\ (said = Nothing => Busy = {})
  /\ Goto(t, "create") /\ \E r \in Record : Drafts(t, r)
  /\ IF Busy = {} THEN UNCHANGED <<crowd, damage>>
     ELSE /\ crowd' = crowd \cup Busy \cup {t}
          /\ damage' = IF damage = "torn" THEN "torn" ELSE "mixed"
  /\ UNCHANGED <<claim, temporary, content, file, said, look>>

\* publish returns: the file is closed.
Returns(t, place) ==
  /\ Goto(t, place) /\ Opens(t, Nothing) /\ Drafts(t, Nothing)
  /\ crowd' = crowd \ {t}

\* publish returns Err; to a claim, which drops its Tenancy.
Fails(t) == Returns(t, IF said = Nothing THEN "giveback" ELSE "idle")

\* Mutant of Creates: the record is written in place.
CreatesInPlace(t, i) ==
  /\ IF claim = Nothing THEN i \notin Used ELSE i = claim
  /\ temporary' = i /\ Opens(t, i) /\ Goto(t, "write")
  /\ UNCHANGED <<claim, draft, private>>

\* The inode File::create opens: the one that has the name, or a new one.
Creates(t, i) ==
  /\ IF temporary = Nothing THEN i \notin Used ELSE i = temporary
  /\ temporary' = i /\ Opens(t, i) /\ Goto(t, "write")
  /\ UNCHANGED <<claim, draft, private>>

\* Mutant of Create: what is there is not truncated.
CreateWithoutTruncate(t) ==
  /\ at[t] = "create"
  /\ \E i \in Inode : Creates(t, i) /\ Holds(content)

\* File::create, which truncates what it finds.
Create(t) ==
  /\ at[t] = "create"
  /\ \/ \E i \in Inode : Creates(t, i) /\ Holds([content EXCEPT ![i] = <<>>])
     \/ /\ "create" \in MayFail /\ Fails(t)
        /\ UNCHANGED <<claim, temporary, said, damage, look>> /\ Holds(content)

\* What stays of a text that another is written over: nothing of the same text or
\* of a shorter one, the end of a longer one, which at its shortest the new text
\* covers up to the run.
Remains(old, new) ==
  {<<>>} \cup (IF old = new THEN {} ELSE {SubSeq(old, n, Len(old)) : n \in 3 .. Len(old)})

\* write_all, at the start of the inode that is open.
WriteAll(t, old, new) ==
  /\ Goto(t, "sync") /\ UNCHANGED <<file, draft, crowd, damage>>
  /\ \E end \in Remains(old, new) : Holds([content EXCEPT ![file[t]] = new \o end])

\* It stops half-way.
WriteSome(t, old, new) ==
  /\ "write" \in MayFail /\ Fails(t)
  /\ damage' = IF t \in crowd THEN "torn" ELSE damage
  /\ \E n \in {k \in Cut : k < Len(new)} :
       Holds([content EXCEPT ![file[t]] = SubSeq(new, 1, n) \o SubSeq(old, n + 1, Len(old))])

Write(t) ==
  /\ at[t] = "write" /\ UNCHANGED <<claim, temporary, said, look>>
  /\ LET old == content[file[t]]
         new == ToText(draft[t])
     IN  WriteAll(t, old, new) \/ WriteSome(t, old, new)

\* sync_all, and the file is closed.
Sync(t) ==
  /\ at[t] = "sync"
  /\ \/ Goto(t, "rename") /\ Opens(t, Nothing) /\ UNCHANGED <<draft, crowd>>
     \/ "sync" \in MayFail /\ Fails(t)
  /\ UNCHANGED <<claim, temporary, said, damage, look>> /\ Holds(content)

\* rename moves whatever has the name of the temporary by now; publish returns Ok.
Rename(t) ==
  /\ at[t] = "rename"
  /\ \/ /\ temporary # Nothing
        /\ claim' = temporary /\ temporary' = Nothing
        /\ Returns(t, "idle") /\ said' = draft[t]
        /\ damage' = IF t \in crowd THEN damage ELSE "none"
     \/ /\ temporary = Nothing \/ "rename" \in MayFail
        /\ Goto(t, "tidy") /\ UNCHANGED <<claim, temporary, file, draft, said, crowd, damage>>
  /\ UNCHANGED look /\ Holds(content)

\* Mutant of Tidy: the claim file is removed instead.
TidyTheRecord(t) ==
  /\ at[t] = "tidy" /\ claim' = Nothing /\ Fails(t)
  /\ UNCHANGED <<temporary, said, damage, look>> /\ Holds(content)

\* remove_file of whatever has the name of the temporary by now.
Tidy(t) ==
  /\ at[t] = "tidy"
  /\ \/ temporary' = Nothing
     \/ "unlink" \in MayFail /\ UNCHANGED temporary
  /\ Fails(t) /\ UNCHANGED <<claim, said, damage, look>> /\ Holds(content)

\* The Tenancy is dropped, by a claim that failed or when no thread uses it.
Drop(t) ==
  /\ at[t] = "giveback" \/ (said # Nothing /\ Busy = {})
  /\ \/ claim' = Nothing
     \/ "unlink" \in MayFail /\ UNCHANGED claim
  /\ said' = Nothing /\ Goto(t, "idle")
  /\ UNCHANGED <<temporary, file, draft, crowd, damage, look>> /\ Holds(content)

-----------------------------------------------------------------------------
(* identify_holder: read_to_string opens the claim file, then reads it.  A *)
(* reader that opens it before a record is due changes nothing here, and   *)
(* is left out: what it may be told is Parse of any content there is.      *)

Look(o, i, r) == look' = [look EXCEPT ![o] = [file |-> i, due |-> r]]

Open(o) ==
  /\ look[o].file = Nothing /\ claim # Nothing /\ said # Nothing /\ damage = "none"
  /\ Look(o, claim, said)
  /\ UNCHANGED <<claim, temporary, at, file, draft, said, crowd, damage>> /\ Holds(content)

\* The answer, a record or HeldAnonymously, is Parse of what is in the file now.
Read(o) ==
  /\ look[o].file # Nothing /\ Look(o, Nothing, Nothing)
  /\ UNCHANGED <<claim, temporary, at, file, draft, said, crowd, damage>> /\ Holds(content)

Next ==
  \/ \E t \in Thread :
       Begin(t) \/ Create(t) \/ Write(t) \/ Sync(t) \/ Rename(t) \/ Tidy(t) \/ Drop(t)
  \/ \E o \in Reader : Open(o) \/ Read(o)

Spec == Init /\ [][Next]_vars

-----------------------------------------------------------------------------
(* Properties.                                                             *)

\* "A reader sees either the previous record or this one, never a half-written line"
\* (src/role.rs:149) and "a failure here leaves the previous record in place": so it
\* is for threads that publish one after the other, and again after a crowd as
\* soon as one of them publishes alone.
WholeUnlessCrowded ==
  said # Nothing /\ damage = "none" => claim # Nothing /\ content[claim] = ToText(said)

\* What makes WholeUnlessCrowded inductive: what a thread that is alone has open is
\* its own, only it leads there, and it holds nothing or all of the draft.
LoneFile(t) ==
  /\ at[t] \in {"write", "sync"} => file[t] = temporary /\ temporary # Nothing
  /\ at[t] = "write" => content[temporary] = <<>>
  /\ at[t] \in {"sync", "rename"} =>
       temporary # Nothing /\ content[temporary] = ToText(draft[t])

FilesAreApart ==
  /\ claim # Nothing => claim # temporary
  /\ \A t \in Thread : at[t] \notin {"write", "sync"} <=> file[t] = Nothing
  /\ \A t \in Thread : draft[t] = Nothing <=> at[t] \in {"idle", "giveback"}

CrowdIsKnown ==
  /\ crowd \subseteq Busy
  /\ \A t \in Busy \ crowd : Busy = {t} /\ LoneFile(t)
  /\ said = Nothing => crowd = {} /\ \A s, t \in Busy : s = t
  /\ \A t \in Thread : at[t] = "giveback" => said = Nothing
  /\ crowd # {} => damage # "none"
  /\ damage = "none" => \A t \in Thread : claim # Nothing => file[t] # claim

\* An inode that a lone thread published is never written again, so a reader that
\* opened it reads that record, however late.
ReaderHasRecord ==
  \A o \in Reader :
    look[o].due # Nothing =>
      /\ look[o].file # Nothing /\ content[look[o].file] = ToText(look[o].due)
      /\ look[o].file # temporary
      /\ \A t \in Thread : file[t] # look[o].file

\* Where no write of a crowd has failed: a text that can be read and names this tenant
\* is in every file that is to be written over or renamed, and in the claim file,
\* unless it is empty, and whoever has truncated it is about to write it.
NamesTenant(text) ==
  Legible(text) /\ ValuesOf(text, "pid") \subseteq {r.pid : r \in Record}

Sound(i) ==
  \/ NamesTenant(content[i])
  \/ content[i] = <<>> /\ \E t \in Thread : at[t] = "write" /\ file[t] = i

FilesAreSound ==
  damage # "torn" =>
    /\ \A t \in Thread :
         at[t] = "write" => content[file[t]] = <<>> \/ NamesTenant(content[file[t]])
    /\ \A t \in Thread :
         at[t] \in {"write", "sync", "rename"} /\ temporary # Nothing => Sound(temporary)
    /\ said # Nothing => claim # Nothing /\ Sound(claim)

RepublishInvariant ==
  /\ TypeOK /\ FilesAreApart /\ CrowdIsKnown /\ WholeUnlessCrowded /\ ReaderHasRecord
  /\ FilesAreSound

\* What an onlooker is told of a tenant is what the tenant published last before it
\* opened the file, all of it but a path that is no text, and of a path the first
\* line, whatever the tenant's threads do until it reads.
ReadsWhatWasPublished ==
  \A o \in Reader :
    look[o].due # Nothing => Parse(content[look[o].file]) = Recovered(look[o].due)

\* Even a crowd leaves a record of this tenant behind, of whichever thread, unless a
\* write failed on the way: once all have returned, the claim file can be read and
\* names the tenant's pid.
QuietIsLegible ==
  said # Nothing /\ Busy = {} /\ damage # "torn" =>
    /\ claim # Nothing
    /\ LET parsed == Parse(content[claim])
       IN  parsed.is = "Record" /\ \E r \in Record : parsed.pid = r.pid

\* "A record written by a newer build still reads" (src/record.rs:196): whatever
\* lines there are, in whatever order, a text is read if and only if what is required
\* is there and every number is one, and the last line of each key counts.
ParseIsLastOfEach == \A i \in Inode : LastOfEachCounts(content[i])
=============================================================================
