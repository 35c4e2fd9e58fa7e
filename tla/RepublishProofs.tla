--------------------------- MODULE RepublishProofs --------------------------
(***************************************************************************)
(* Proofs about module Republish, for any number of threads and readers.   *)
(* The invariant says of each inode who may write it: that of a thread     *)
(* that is alone in publish belongs to that thread, and one that such a    *)
(* thread has published belongs to nobody.                                 *)
(***************************************************************************)
EXTENDS Republish, RecordTextProofs

\* Writing a text over an empty file gives the text itself.
LEMMA TextIsWhole ==
  ASSUME NEW text \in Text
  PROVE  text \o <<>> = text
BY DEF Text

\* What a thread writes can be read, and says the pid of its record.
LEMMA WrittenRecord ==
  ASSUME NEW r \in Record
  PROVE  /\ Writable(r) /\ ToText(r) \in Text /\ Legible(ToText(r))
         /\ ValuesOf(ToText(r), "pid") = {r.pid}
<1>1. Writable(r)
  BY RepublishConstants
<1> QED BY <1>1, ToTextSaysEachFact, ToTextIsLegible DEF Facts, Key, Numeric

\* So it names the tenant.
LEMMA RecordNamesTenant ==
  ASSUME NEW r \in Record
  PROVE  NamesTenant(ToText(r))
BY WrittenRecord DEF NamesTenant

\* What is left of a text that names the tenant does no harm after a whole record.
LEMMA RemainderNamesTenant ==
  ASSUME NEW r \in Record, NEW old \in Text, old = <<>> \/ NamesTenant(old),
         NEW end \in Remains(old, ToText(r))
  PROVE  ToText(r) \o end \in Text /\ NamesTenant(ToText(r) \o end)
<1> DEFINE new == ToText(r)
<1>1. new \in Text /\ NamesTenant(new)
  BY WrittenRecord, RecordNamesTenant
<1>2. end \in Text /\ \A k : ValuesOf(end, k) \subseteq ValuesOf(old, k)
  <2>1. CASE end = <<>>
    BY <2>1, EmptyText
  <2>2. CASE \E n \in 3 .. Len(old) : end = SubSeq(old, n, Len(old))
    <3>1. PICK n \in 3 .. Len(old) : end = SubSeq(old, n, Len(old))
      BY <2>2
    <3>2. Len(old) \in Nat /\ n \in Nat \ {0}
      BY TextIsLines
    <3> QED BY <3>1, <3>2, PartOfText
  <2> HIDE DEF new
  <2> QED BY <2>1, <2>2 DEF Remains
<1>3. \A k : ValuesOf(old, k) = {} \/ NamesTenant(old)
  BY EmptyText
<1> HIDE DEF new
<1>4. new \o end \in Text
      /\ \A k : ValuesOf(new \o end, k) = ValuesOf(new, k) \cup ValuesOf(end, k)
  BY <1>1, <1>2, TwoTexts
<1> DEFINE both == new \o end
<1> HIDE DEF both
<1>5. ValuesOf(both, "pid") \subseteq {q.pid : q \in Record}
  BY <1>1, <1>2, <1>3, <1>4 DEF NamesTenant, both
<1>6. ASSUME NEW k \in Numeric, NEW v \in ValuesOf(both, k)
      PROVE  IsNumber(k, v)
  BY <1>1, <1>2, <1>3, <1>4 DEF NamesTenant, Legible, both
<1>7. \A k \in {"run", "compat", "pid"} : Of(both, k) # {}
  <2>1. \A k \in {"run", "compat", "pid"} : ValuesOf(new, k) # {}
    BY <1>1, LastOfThose DEF NamesTenant, Legible
  <2>2. \A k \in {"run", "compat", "pid"} : ValuesOf(both, k) # {}
    BY <1>4, <2>1 DEF both
  <2> QED BY <1>4, <2>2, LastOfThose DEF both
<1>8. NamesTenant(both)
  BY <1>5, <1>6, <1>7 DEF NamesTenant, Legible
<1> QED BY <1>4, <1>8 DEF both, new

\* The directory keeps the texts of the files that are in use, and forgets the others.
LEMMA HoldsTexts ==
  ASSUME NEW text \in [Inode -> Text], Holds(text)
  PROVE  /\ content' \in [Inode -> Text]
         /\ \A i \in Inode : i \in Used' => content'[i] = text[i]
BY EmptyText DEF Holds

\* A step that writes and renames nothing, and starts and ends no write, leaves the
\* files as sound as they were.
LEMMA FilesStaySound ==
  ASSUME RepublishInvariant,
         \A i \in Inode : i \in Used' => content'[i] = content[i],
         \A s \in Thread : at'[s] = "write" <=> at[s] = "write",
         \A s \in Thread : at[s] = "write" => file'[s] = file[s],
         \A s \in Thread : at'[s] \in {"sync", "rename"} => at[s] \in {"sync", "rename"},
         temporary' \in {temporary, Nothing},
         said' # Nothing => said # Nothing /\ claim' = claim,
         damage = "torn" => damage' = "torn"
  PROVE  FilesAreSound'
<1> SUFFICES ASSUME damage' # "torn"
             PROVE  /\ \A t \in Thread : at'[t] = "write" =>
                         content'[file'[t]] = <<>> \/ NamesTenant(content'[file'[t]])
                    /\ \A t \in Thread :
                         at'[t] \in {"write", "sync", "rename"} /\ temporary' # Nothing =>
                           Sound(temporary)'
                    /\ said' # Nothing => claim' # Nothing /\ Sound(claim)'
  BY DEF FilesAreSound
<1>1. /\ \A t \in Thread : at[t] = "write" =>
           content[file[t]] = <<>> \/ NamesTenant(content[file[t]])
      /\ \A t \in Thread :
           at[t] \in {"write", "sync", "rename"} /\ temporary # Nothing => Sound(temporary)
      /\ said # Nothing => claim # Nothing /\ Sound(claim)
  BY DEF RepublishInvariant, FilesAreSound
<1>2. /\ claim \in Inode \cup {Nothing} /\ temporary \in Inode \cup {Nothing}
      /\ \A t \in Thread : at[t] = "write" => file[t] \in Inode
  BY DEF RepublishInvariant, TypeOK, FilesAreApart
<1>3. ASSUME NEW i \in Inode, i \in Used', Sound(i)
      PROVE  \/ NamesTenant(content'[i])
             \/ content'[i] = <<>> /\ \E t \in Thread : at'[t] = "write" /\ file'[t] = i
  BY <1>3 DEF Sound
<1>4. ASSUME NEW t \in Thread, at'[t] = "write"
      PROVE  content'[file'[t]] = <<>> \/ NamesTenant(content'[file'[t]])
  <2>1. file'[t] \in Inode /\ file'[t] \in Used' /\ at[t] = "write" /\ file'[t] = file[t]
    BY <1>2, <1>4 DEF Used
  <2> QED BY <1>1, <2>1
<1>5. ASSUME NEW t \in Thread, at'[t] \in {"write", "sync", "rename"}, temporary' # Nothing
      PROVE  Sound(temporary)'
  <2>1. temporary' = temporary /\ temporary \in Inode /\ temporary' \in Used'
    BY <1>2, <1>5 DEF Used
  <2>2. Sound(temporary)
    BY <1>1, <1>5, <2>1
  <2> QED BY <1>3, <2>1, <2>2 DEF Sound
<1>6. ASSUME said' # Nothing
      PROVE  claim' # Nothing /\ Sound(claim)'
  <2>1. claim' = claim /\ claim # Nothing /\ Sound(claim)
    BY <1>1, <1>6
  <2>2. claim \in Inode /\ claim' \in Used'
    BY <1>2, <2>1 DEF Used
  <2> QED BY <1>3, <2>1, <2>2 DEF Sound
<1> QED BY <1>4, <1>5, <1>6

LEMMA BeginPreserves ==
  ASSUME RepublishInvariant, NEW t \in Thread, Begin(t)
  PROVE  RepublishInvariant'
<1>1. TypeOK'
  BY DEF RepublishInvariant, TypeOK, Place, Begin, Goto, Drafts, Busy
<1>2. FilesAreApart'
  BY RepublishConstants DEF RepublishInvariant, TypeOK, FilesAreApart, Begin, Goto, Drafts
<1>3. CrowdIsKnown'
  BY DEF RepublishInvariant, TypeOK, CrowdIsKnown, LoneFile, Begin, Goto, Busy
<1>4. WholeUnlessCrowded'
  BY DEF RepublishInvariant, WholeUnlessCrowded, Begin
<1>5. ReaderHasRecord'
  BY DEF RepublishInvariant, ReaderHasRecord, Begin
<1>6. FilesAreSound'
  <2>1. \A i \in Inode : content'[i] = content[i]
    BY DEF Begin
  <2> QED BY <2>1, FilesStaySound DEF RepublishInvariant, TypeOK, Begin, Goto
<1> QED BY <1>1, <1>2, <1>3, <1>4, <1>5, <1>6 DEF RepublishInvariant

LEMMA CreatePreserves ==
  ASSUME RepublishInvariant, NEW t \in Thread, Create(t)
  PROVE  RepublishInvariant'
<1>1. TypeOK'
  <2>1. content' \in [Inode -> Text]
    <3>1. \A i \in Inode : [content EXCEPT ![i] = <<>>] \in [Inode -> Text]
      BY EmptyText DEF RepublishInvariant, TypeOK
    <3> QED BY <3>1, HoldsTexts DEF RepublishInvariant, TypeOK, Create
  <2> QED BY <2>1 DEF RepublishInvariant, TypeOK, Place, Create, Creates, Fails, Returns,
                   Goto, Opens, Drafts, private
<1>2. FilesAreApart'
  BY DEF RepublishInvariant, TypeOK, FilesAreApart, Create, Creates, Fails, Returns,
         Goto, Opens, Drafts, Holds, Used
<1>3. CrowdIsKnown'
  BY DEF RepublishInvariant, TypeOK, FilesAreApart, CrowdIsKnown, LoneFile, Create,
         Creates, Fails, Returns, Goto, Opens, Holds, Used, Busy, private
<1>4. WholeUnlessCrowded'
  BY DEF RepublishInvariant, TypeOK, FilesAreApart, WholeUnlessCrowded, Create, Creates,
         Holds, Used, private
<1>5. ReaderHasRecord'
  BY DEF RepublishInvariant, TypeOK, ReaderHasRecord, Create, Creates, Fails, Returns,
         Opens, Holds, Used, private
<1>6. FilesAreSound'
  <2>1. CASE Fails(t) /\ UNCHANGED <<claim, temporary, said, damage>> /\ Holds(content)
    <3>1. \A i \in Inode : i \in Used' => content'[i] = content[i]
      BY <2>1, HoldsTexts DEF RepublishInvariant, TypeOK
    <3> QED
      BY <2>1, <3>1, FilesStaySound DEF RepublishInvariant, TypeOK, Create, Fails,
                                        Returns, Goto, Opens
  <2>2. ASSUME NEW i \in Inode, Creates(t, i), Holds([content EXCEPT ![i] = <<>>])
        PROVE  FilesAreSound'
    <3>1. \A j \in Inode : j \in Used' =>
            content'[j] = IF j = i THEN <<>> ELSE content[j]
      <4>1. [content EXCEPT ![i] = <<>>] \in [Inode -> Text]
        BY EmptyText DEF RepublishInvariant, TypeOK
      <4> QED BY <2>2, <4>1, HoldsTexts DEF RepublishInvariant, TypeOK
    <3>2. /\ at'[t] = "write" /\ file'[t] = i /\ temporary' = i
          /\ UNCHANGED <<claim, said, damage>>
      BY <2>2 DEF RepublishInvariant, TypeOK, Creates, Opens, Goto, private
    <3>3. \A s \in Thread : s # t => at'[s] = at[s] /\ file'[s] = file[s]
      BY <2>2 DEF RepublishInvariant, TypeOK, Creates, Opens, Goto
    <3>4. at[t] = "create" /\ \A s \in Thread : at[s] = "write" => file[s] \in Inode
      BY DEF RepublishInvariant, TypeOK, FilesAreApart, Create
    <3>5. Sound(i)'
      BY <3>1, <3>2 DEF Sound, Used
    <3>6. ASSUME NEW s \in Thread, at'[s] = "write", damage # "torn"
          PROVE  content'[file'[s]] = <<>> \/ NamesTenant(content'[file'[s]])
      <4>1. CASE s = t
        BY <3>1, <3>2, <4>1 DEF Used
      <4>2. CASE s # t
        <5>1. file'[s] \in Inode /\ file'[s] \in Used'
          BY <3>3, <3>4, <3>6, <4>2 DEF Used
        <5> QED BY <3>1, <3>3, <3>6, <4>2, <5>1 DEF RepublishInvariant, FilesAreSound
      <4> QED BY <4>1, <4>2
    <3>7. ASSUME said # Nothing, damage # "torn"
          PROVE  claim # Nothing /\ Sound(claim)'
      <4>1. claim \in Inode /\ claim' \in Used' /\ Sound(claim)
        BY <3>2, <3>7 DEF RepublishInvariant, TypeOK, FilesAreSound, Used
      <4>2. CASE claim = i
        BY <3>2, <3>5, <4>1, <4>2, RepublishConstants
      <4>3. CASE claim # i
        BY <3>1, <3>2, <3>3, <3>4, <4>1, <4>3, RepublishConstants DEF Sound
      <4> QED BY <4>1, <4>2, <4>3
    <3> QED BY <3>2, <3>5, <3>6, <3>7 DEF FilesAreSound
  <2> QED BY <2>1, <2>2 DEF Create
<1> QED BY <1>1, <1>2, <1>3, <1>4, <1>5, <1>6 DEF RepublishInvariant

LEMMA SyncPreserves ==
  ASSUME RepublishInvariant, NEW t \in Thread, Sync(t)
  PROVE  RepublishInvariant'
<1>1. TypeOK'
  <2>1. content' \in [Inode -> Text]
    BY HoldsTexts DEF RepublishInvariant, TypeOK, Sync
  <2> QED BY <2>1 DEF RepublishInvariant, TypeOK, Place, Sync, Fails, Returns, Goto,
                   Opens, Drafts
<1>2. FilesAreApart'
  BY DEF RepublishInvariant, TypeOK, FilesAreApart, Sync, Fails, Returns, Goto, Opens,
         Drafts
<1>3. CrowdIsKnown'
  BY DEF RepublishInvariant, TypeOK, CrowdIsKnown, LoneFile, Busy, Sync, Fails, Returns,
         Goto, Opens, Holds, Used
<1>4. WholeUnlessCrowded'
  BY DEF RepublishInvariant, TypeOK, WholeUnlessCrowded, Sync, Holds, Used
<1>5. ReaderHasRecord'
  BY DEF RepublishInvariant, TypeOK, ReaderHasRecord, Sync, Fails, Returns, Opens, Holds,
         Used
<1>6. FilesAreSound'
  <2>1. \A i \in Inode : i \in Used' => content'[i] = content[i]
    BY HoldsTexts DEF RepublishInvariant, TypeOK, Sync
  <2> QED
    BY <2>1, FilesStaySound DEF RepublishInvariant, TypeOK, Sync, Fails, Returns, Goto,
                                Opens
<1> QED BY <1>1, <1>2, <1>3, <1>4, <1>5, <1>6 DEF RepublishInvariant

LEMMA RenamePreserves ==
  ASSUME RepublishInvariant, NEW t \in Thread, Rename(t)
  PROVE  RepublishInvariant'
<1>1. TypeOK'
  <2>1. content' \in [Inode -> Text]
    BY HoldsTexts DEF RepublishInvariant, TypeOK, Rename
  <2> QED BY <2>1 DEF RepublishInvariant, TypeOK, Place, Rename, Returns, Goto, Opens,
                   Drafts
<1>2. FilesAreApart'
  BY DEF RepublishInvariant, TypeOK, FilesAreApart, Rename, Returns, Goto, Opens, Drafts
<1>3. CrowdIsKnown'
  BY DEF RepublishInvariant, TypeOK, CrowdIsKnown, FilesAreApart, LoneFile, Busy, Rename,
         Returns, Goto, Opens
<1>4. WholeUnlessCrowded'
  BY DEF RepublishInvariant, TypeOK, WholeUnlessCrowded, CrowdIsKnown, LoneFile, Busy,
         Rename, Holds, Used
<1>5. ReaderHasRecord'
  BY DEF RepublishInvariant, TypeOK, ReaderHasRecord, Rename, Returns, Opens, Holds, Used
<1>6. FilesAreSound'
  <2>1. \A i \in Inode : i \in Used' => content'[i] = content[i]
    BY HoldsTexts DEF RepublishInvariant, TypeOK, Rename
  <2>2. CASE claim' = temporary /\ temporary # Nothing /\ temporary' = Nothing
    <3>1. /\ claim' \in Inode /\ content'[claim'] = content[temporary]
          /\ damage' = IF t \in crowd THEN damage ELSE "none"
      BY <2>1, <2>2 DEF RepublishInvariant, TypeOK, Rename, Used
    <3>2. \A s \in Thread : at'[s] = "write" <=> at[s] = "write"
      BY DEF RepublishInvariant, TypeOK, Rename, Returns, Goto
    <3>3. \A s \in Thread : at[s] = "write" =>
            file'[s] = file[s] /\ content'[file[s]] = content[file[s]]
      <4>1. \A s \in Thread : at[s] = "write" => file'[s] = file[s] /\ file[s] \in Inode
        BY DEF RepublishInvariant, TypeOK, FilesAreApart, Rename, Returns, Opens
      <4> QED BY <2>1, <4>1 DEF Used
    <3>4. CASE t \notin crowd
      <4>1. LoneFile(t) /\ Busy = {t} /\ draft[t] \in Record
        BY <3>4, RepublishConstants
        DEF RepublishInvariant, TypeOK, FilesAreApart, CrowdIsKnown, Rename, Busy
      <4>2. NamesTenant(content'[claim'])
        BY <3>1, <4>1, RecordNamesTenant DEF LoneFile, Rename
      <4>3. \A s \in Thread : at[s] # "write"
        BY <4>1 DEF Busy, Rename
      <4> QED BY <2>2, <3>1, <3>2, <4>2, <4>3 DEF FilesAreSound, Sound
    <3>5. CASE t \in crowd
      <4>1. SUFFICES ASSUME damage # "torn"
                     PROVE  FilesAreSound'
        BY <3>1, <3>5 DEF FilesAreSound
      <4>2. Sound(temporary)
        BY <2>2, <4>1 DEF RepublishInvariant, FilesAreSound, Rename
      <4>3. Sound(claim)'
        BY <2>2, <3>1, <3>2, <3>3, <4>2 DEF Sound
      <4>4. \A s \in Thread : at[s] = "write" =>
              content[file[s]] = <<>> \/ NamesTenant(content[file[s]])
        BY <4>1 DEF RepublishInvariant, FilesAreSound
      <4> QED BY <2>2, <3>1, <3>2, <3>3, <4>3, <4>4 DEF FilesAreSound
    <3> QED BY <3>4, <3>5
  <2>3. CASE claim' = claim /\ temporary' = temporary /\ UNCHANGED <<said, damage, file>>
    BY <2>1, <2>3, FilesStaySound DEF RepublishInvariant, TypeOK, Rename, Returns, Goto
  <2> QED BY <2>2, <2>3 DEF Rename
<1> QED BY <1>1, <1>2, <1>3, <1>4, <1>5, <1>6 DEF RepublishInvariant

LEMMA TidyPreserves ==
  ASSUME RepublishInvariant, NEW t \in Thread, Tidy(t)
  PROVE  RepublishInvariant'
<1>1. TypeOK'
  <2>1. content' \in [Inode -> Text]
    BY HoldsTexts DEF RepublishInvariant, TypeOK, Tidy
  <2> QED BY <2>1 DEF RepublishInvariant, TypeOK, Place, Tidy, Fails, Returns, Goto,
                   Opens, Drafts
<1>2. FilesAreApart'
  BY DEF RepublishInvariant, TypeOK, FilesAreApart, Tidy, Fails, Returns, Goto, Opens,
         Drafts
<1>3. CrowdIsKnown'
  BY DEF RepublishInvariant, TypeOK, CrowdIsKnown, LoneFile, Busy, Tidy, Fails, Returns,
         Goto, Opens
<1>4. WholeUnlessCrowded'
  BY DEF RepublishInvariant, TypeOK, WholeUnlessCrowded, Tidy, Holds, Used
<1>5. ReaderHasRecord'
  BY DEF RepublishInvariant, TypeOK, ReaderHasRecord, Tidy, Fails, Returns, Opens, Holds,
         Used
<1>6. FilesAreSound'
  <2>1. \A i \in Inode : i \in Used' => content'[i] = content[i]
    BY HoldsTexts DEF RepublishInvariant, TypeOK, Tidy
  <2> QED
    BY <2>1, FilesStaySound DEF RepublishInvariant, TypeOK, Tidy, Fails, Returns, Goto,
                                Opens
<1> QED BY <1>1, <1>2, <1>3, <1>4, <1>5, <1>6 DEF RepublishInvariant

LEMMA DropPreserves ==
  ASSUME RepublishInvariant, NEW t \in Thread, Drop(t)
  PROVE  RepublishInvariant'
<1>1. TypeOK'
  <2>1. content' \in [Inode -> Text]
    BY HoldsTexts DEF RepublishInvariant, TypeOK, Drop
  <2> QED BY <2>1 DEF RepublishInvariant, TypeOK, Place, Drop, Goto
<1>2. FilesAreApart'
  BY DEF RepublishInvariant, FilesAreApart, Drop, Goto, Busy
<1>3. CrowdIsKnown'
  BY DEF RepublishInvariant, TypeOK, CrowdIsKnown, Busy, Drop, Goto
<1>4. WholeUnlessCrowded'
  BY DEF RepublishInvariant, WholeUnlessCrowded, Drop
<1>5. ReaderHasRecord'
  BY DEF RepublishInvariant, TypeOK, ReaderHasRecord, Drop, Holds, Used
<1>6. FilesAreSound'
  <2>1. \A i \in Inode : i \in Used' => content'[i] = content[i]
    BY HoldsTexts DEF RepublishInvariant, TypeOK, Drop
  <2> QED
    BY <2>1, FilesStaySound DEF RepublishInvariant, TypeOK, Drop, Goto, Busy
<1> QED BY <1>1, <1>2, <1>3, <1>4, <1>5, <1>6 DEF RepublishInvariant

LEMMA OpenPreserves ==
  ASSUME RepublishInvariant, NEW o \in Reader, Open(o)
  PROVE  RepublishInvariant'
<1>1. TypeOK'
  <2>1. content' \in [Inode -> Text]
    BY HoldsTexts DEF RepublishInvariant, TypeOK, Open
  <2> QED BY <2>1 DEF RepublishInvariant, TypeOK, Place, Open, Look
<1>2. FilesAreApart'
  BY DEF RepublishInvariant, FilesAreApart, Open, Look
<1>3. CrowdIsKnown'
  BY DEF RepublishInvariant, TypeOK, CrowdIsKnown, LoneFile, Busy, Open, Look, Holds, Used
<1>4. WholeUnlessCrowded'
  BY DEF RepublishInvariant, TypeOK, WholeUnlessCrowded, Open, Look, Holds, Used
<1>5. ReaderHasRecord'
  BY DEF RepublishInvariant, TypeOK, ReaderHasRecord, FilesAreApart, Open, Look, Holds,
         CrowdIsKnown, WholeUnlessCrowded, Used
<1>6. FilesAreSound'
  <2>1. \A i \in Inode : i \in Used' => content'[i] = content[i]
    BY HoldsTexts DEF RepublishInvariant, TypeOK, Open
  <2> QED
    BY <2>1, FilesStaySound DEF RepublishInvariant, TypeOK, Open, Look
<1> QED BY <1>1, <1>2, <1>3, <1>4, <1>5, <1>6 DEF RepublishInvariant

LEMMA ReadPreserves ==
  ASSUME RepublishInvariant, NEW o \in Reader, Read(o)
  PROVE  RepublishInvariant'
<1>1. TypeOK'
  <2>1. content' \in [Inode -> Text]
    BY HoldsTexts DEF RepublishInvariant, TypeOK, Read
  <2> QED BY <2>1 DEF RepublishInvariant, TypeOK, Place, Read, Look
<1>2. FilesAreApart'
  BY DEF RepublishInvariant, FilesAreApart, Read, Look
<1>3. CrowdIsKnown'
  BY DEF RepublishInvariant, TypeOK, CrowdIsKnown, LoneFile, Busy, Read, Look, Holds, Used
<1>4. WholeUnlessCrowded'
  BY DEF RepublishInvariant, TypeOK, WholeUnlessCrowded, Read, Look, Holds, Used
<1>5. ReaderHasRecord'
  BY DEF RepublishInvariant, TypeOK, ReaderHasRecord, Read, Look, Holds, Used
<1>6. FilesAreSound'
  <2>1. \A i \in Inode : i \in Used' => content'[i] = content[i]
    BY HoldsTexts DEF RepublishInvariant, TypeOK, Read
  <2> QED
    BY <2>1, FilesStaySound DEF RepublishInvariant, TypeOK, Read, Look
<1> QED BY <1>1, <1>2, <1>3, <1>4, <1>5, <1>6 DEF RepublishInvariant

LEMMA WriteAllPreserves ==
  ASSUME RepublishInvariant, NEW t \in Thread, Write(t),
         WriteAll(t, content[file[t]], ToText(draft[t]))
  PROVE  RepublishInvariant'
<1> DEFINE old == content[file[t]]
           new == ToText(draft[t])
<1>1. /\ file[t] \in Inode /\ draft[t] \in Record /\ at[t] = "write"
      /\ old \in Text /\ new \in Text
  <2>1. file[t] \in Inode /\ draft[t] \in Record /\ at[t] = "write"
    BY RepublishConstants DEF RepublishInvariant, TypeOK, FilesAreApart, Write
  <2> QED BY <2>1, WrittenRecord DEF RepublishInvariant, TypeOK
<1>2. PICK end \in Remains(old, new) : Holds([content EXCEPT ![file[t]] = new \o end])
  BY DEF WriteAll
<1>3. end \in Text /\ new \o end \in Text
  <2>1. end = <<>> \/ \E n \in 3 .. Len(old) : end = SubSeq(old, n, Len(old))
    BY <1>2 DEF Remains
  <2>2. end = <<>> => end \in Text
    BY EmptyText
  <2>3. ASSUME NEW n \in 3 .. Len(old), end = SubSeq(old, n, Len(old))
        PROVE  end \in Text
    <3>1. Len(old) \in Nat /\ n \in Nat \ {0}
      BY <1>1, TextIsLines
    <3> QED BY <1>1, <2>3, <3>1, PartOfText
  <2>4. end \in Text
    BY <2>1, <2>2, <2>3
  <2> HIDE DEF old, new
  <2> QED BY <1>1, <2>4, TwoTexts
<1> DEFINE written == new \o end
<1> HIDE DEF old, new, written
<1>4. /\ content' \in [Inode -> Text]
      /\ \A i \in Inode : i \in Used' =>
           content'[i] = IF i = file[t] THEN written ELSE content[i]
  <2>1. [content EXCEPT ![file[t]] = written] \in [Inode -> Text]
    BY <1>3 DEF RepublishInvariant, TypeOK, written
  <2>2. Holds([content EXCEPT ![file[t]] = written])
    BY <1>2 DEF written
  <2> QED BY <2>1, <2>2, HoldsTexts DEF RepublishInvariant, TypeOK
<1>5. /\ at' = [at EXCEPT ![t] = "sync"]
      /\ UNCHANGED <<claim, temporary, file, draft, said, crowd, damage, look>>
  BY DEF Write, WriteAll, Goto
<1>6. t \notin crowd =>
        /\ file[t] = temporary /\ temporary # Nothing
        /\ content'[temporary] = new
  <2> SUFFICES ASSUME t \notin crowd
               PROVE  /\ file[t] = temporary /\ temporary # Nothing
                      /\ content'[temporary] = new
    OBVIOUS
  <2>1. LoneFile(t)
    BY <1>1 DEF RepublishInvariant, TypeOK, CrowdIsKnown, Busy
  <2>2. file[t] = temporary /\ temporary # Nothing /\ old = <<>>
    BY <1>1, <2>1 DEF LoneFile, old
  <2>3. end = <<>>
    <3>1. 3 .. Len(<<>>) = {}
      OBVIOUS
    <3> QED BY <1>2, <2>2, <3>1 DEF Remains
  <2>4. written = new
    BY <1>1, <2>3, TextIsWhole DEF written
  <2>5. temporary \in Inode /\ temporary \in Used'
    BY <1>1, <1>5, <2>2 DEF Used
  <2> QED BY <1>4, <2>2, <2>4, <2>5
<1>7. TypeOK'
  BY <1>4, <1>5 DEF RepublishInvariant, TypeOK, Place
<1>8. FilesAreApart'
  BY <1>1, <1>5 DEF RepublishInvariant, TypeOK, FilesAreApart
<1>9. CrowdIsKnown'
  BY <1>1, <1>5, <1>6 DEF RepublishInvariant, TypeOK, CrowdIsKnown, LoneFile, Busy, new
<1>10. WholeUnlessCrowded'
  BY <1>1, <1>4, <1>5 DEF RepublishInvariant, TypeOK, WholeUnlessCrowded, CrowdIsKnown, Used
<1>11. ReaderHasRecord'
  BY <1>1, <1>4, <1>5 DEF RepublishInvariant, TypeOK, ReaderHasRecord, Used
<1>12. FilesAreSound'
  <2> SUFFICES ASSUME damage # "torn"
               PROVE  FilesAreSound'
    BY <1>5 DEF FilesAreSound
  <2>1. NamesTenant(written)
    <3>1. old = <<>> \/ NamesTenant(old)
      BY <1>1 DEF RepublishInvariant, FilesAreSound, old
    <3> QED BY <1>1, <1>2, <3>1, RemainderNamesTenant DEF written, new
  <2>2. ASSUME NEW s \in Thread, at'[s] = "write"
        PROVE  content'[file'[s]] = <<>> \/ NamesTenant(content'[file'[s]])
    <3>1. at[s] = "write" /\ file'[s] = file[s]
      BY <1>5, <2>2 DEF RepublishInvariant, TypeOK
    <3>2. file[s] \in Inode /\ file[s] \in Used'
      BY <1>5, <3>1 DEF RepublishInvariant, TypeOK, FilesAreApart, Used
    <3> QED BY <1>4, <2>1, <3>1, <3>2 DEF RepublishInvariant, FilesAreSound
  <2>3. ASSUME NEW i \in Inode, i \in Used', Sound(i)
        PROVE  \/ NamesTenant(content'[i])
               \/ content'[i] = <<>> /\ \E s \in Thread : at'[s] = "write" /\ file'[s] = i
    <3>1. CASE i = file[t]
      BY <1>4, <2>1, <2>3, <3>1
    <3>2. CASE i # file[t]
      BY <1>1, <1>4, <1>5, <2>3, <3>2 DEF Sound, RepublishInvariant, TypeOK
    <3> QED BY <3>1, <3>2
  <2>4. ASSUME temporary # Nothing
        PROVE  Sound(temporary)'
    <3>1. temporary \in Inode /\ temporary \in Used' /\ Sound(temporary)
      BY <1>1, <1>5, <2>4 DEF RepublishInvariant, TypeOK, FilesAreSound, Used
    <3> QED BY <1>5, <2>3, <3>1 DEF Sound
  <2>5. ASSUME said # Nothing
        PROVE  claim # Nothing /\ Sound(claim)'
    <3>1. claim \in Inode /\ claim \in Used' /\ Sound(claim)
      BY <1>5, <2>5 DEF RepublishInvariant, TypeOK, FilesAreSound, Used
    <3> QED BY <1>5, <2>3, <2>5, <3>1, RepublishConstants DEF Sound
  <2> QED BY <1>5, <2>2, <2>4, <2>5 DEF FilesAreSound
<1> QED BY <1>7, <1>8, <1>9, <1>10, <1>11, <1>12 DEF RepublishInvariant

LEMMA WriteSomePreserves ==
  ASSUME RepublishInvariant, NEW t \in Thread, Write(t),
         WriteSome(t, content[file[t]], ToText(draft[t]))
  PROVE  RepublishInvariant'
<1> DEFINE old == content[file[t]]
           new == ToText(draft[t])
<1>1. /\ file[t] \in Inode /\ draft[t] \in Record /\ at[t] = "write"
      /\ old \in Text /\ new \in Text
  <2>1. file[t] \in Inode /\ draft[t] \in Record /\ at[t] = "write"
    BY RepublishConstants DEF RepublishInvariant, TypeOK, FilesAreApart, Write
  <2> QED BY <2>1, WrittenRecord DEF RepublishInvariant, TypeOK
<1>2. PICK n \in Cut : n < Len(new) /\
        Holds([content EXCEPT ![file[t]] = SubSeq(new, 1, n) \o SubSeq(old, n + 1, Len(old))])
  BY DEF WriteSome
<1> DEFINE written == SubSeq(new, 1, n) \o SubSeq(old, n + 1, Len(old))
<1> HIDE DEF old, new
<1>3. written \in Text
  <2>1. n \in Nat /\ Len(new) \in Nat /\ Len(old) \in Nat
    BY <1>1, TextIsLines, RepublishConstants
  <2>2. 1 \in Nat \ {0} /\ n + 1 \in Nat \ {0} /\ n <= Len(new) /\ Len(old) <= Len(old)
    BY <1>2, <2>1
  <2>3. SubSeq(new, 1, n) \in Text /\ SubSeq(old, n + 1, Len(old)) \in Text
    BY <1>1, <2>1, <2>2, PartOfText
  <2> QED BY <2>3, TwoTexts
<1> HIDE DEF written
<1>4. /\ content' \in [Inode -> Text]
      /\ \A i \in Inode : i \in Used' =>
           content'[i] = IF i = file[t] THEN written ELSE content[i]
  <2>1. [content EXCEPT ![file[t]] = written] \in [Inode -> Text]
    BY <1>3 DEF RepublishInvariant, TypeOK
  <2>2. Holds([content EXCEPT ![file[t]] = written])
    BY <1>2 DEF written
  <2> QED BY <2>1, <2>2, HoldsTexts DEF RepublishInvariant, TypeOK
<1>5. /\ at' = [at EXCEPT ![t] = IF said = Nothing THEN "giveback" ELSE "idle"]
      /\ file' = [file EXCEPT ![t] = Nothing] /\ draft' = [draft EXCEPT ![t] = Nothing]
      /\ crowd' = crowd \ {t}
      /\ damage' = IF t \in crowd THEN "torn" ELSE damage
      /\ UNCHANGED <<claim, temporary, said, look>>
  BY DEF Write, WriteSome, Fails, Returns, Goto, Opens, Drafts
<1>6. TypeOK'
  BY <1>4, <1>5 DEF RepublishInvariant, TypeOK, Place
<1>7. FilesAreApart'
  BY <1>1, <1>5 DEF RepublishInvariant, TypeOK, FilesAreApart
<1>8. CrowdIsKnown'
  BY <1>1, <1>5 DEF RepublishInvariant, TypeOK, CrowdIsKnown, LoneFile, Busy
<1>9. WholeUnlessCrowded'
  BY <1>1, <1>4, <1>5 DEF RepublishInvariant, TypeOK, WholeUnlessCrowded, CrowdIsKnown, Used
<1>10. ReaderHasRecord'
  BY <1>1, <1>4, <1>5 DEF RepublishInvariant, TypeOK, ReaderHasRecord, Used
<1>11. FilesAreSound'
  <2> SUFFICES ASSUME t \notin crowd, damage # "torn"
               PROVE  FilesAreSound'
    BY <1>5 DEF FilesAreSound
  <2>1. Busy = {t} /\ file[t] = temporary /\ temporary # Nothing
    BY <1>1 DEF RepublishInvariant, TypeOK, CrowdIsKnown, LoneFile, Busy
  <2>2. \A s \in Thread : at'[s] \in {"idle", "giveback"}
    BY <1>5, <2>1 DEF RepublishInvariant, TypeOK, Busy
  <2>3. ASSUME said # Nothing
        PROVE  claim # Nothing /\ Sound(claim)'
    <3>1. claim # Nothing /\ Sound(claim) /\ claim # file[t]
      BY <2>1, <2>3 DEF RepublishInvariant, FilesAreSound, FilesAreApart
    <3>2. NamesTenant(content[claim])
      BY <2>1, <3>1 DEF Sound, Busy
    <3>3. claim \in Inode /\ claim \in Used'
      BY <1>5, <3>1 DEF RepublishInvariant, TypeOK, Used
    <3> QED BY <1>4, <1>5, <3>1, <3>2, <3>3 DEF Sound
  <2> QED BY <1>5, <2>2, <2>3 DEF FilesAreSound
<1> QED BY <1>6, <1>7, <1>8, <1>9, <1>10, <1>11 DEF RepublishInvariant

LEMMA InitEstablishes == Init => RepublishInvariant
<1> SUFFICES ASSUME Init
             PROVE  RepublishInvariant
  OBVIOUS
<1>1. TypeOK
  <2>1. content \in [Inode -> Text]
    BY RepublishConstants, EmptyText DEF Init
  <2> QED BY <2>1 DEF Init, TypeOK, Place
<1>2. FilesAreApart
  BY DEF Init, FilesAreApart
<1>3. CrowdIsKnown
  BY DEF Init, CrowdIsKnown, Busy
<1>4. WholeUnlessCrowded
  BY DEF Init, WholeUnlessCrowded
<1>5. ReaderHasRecord
  BY DEF Init, ReaderHasRecord
<1>6. FilesAreSound
  BY DEF Init, FilesAreSound
<1> QED BY <1>1, <1>2, <1>3, <1>4, <1>5, <1>6 DEF RepublishInvariant

LEMMA StutterPreserves == RepublishInvariant /\ UNCHANGED vars => RepublishInvariant'
  BY DEF RepublishInvariant, TypeOK, Busy, vars, FilesAreApart, CrowdIsKnown,
         WholeUnlessCrowded, ReaderHasRecord, LoneFile, FilesAreSound, Sound

\* The claim file of a tenant whose threads publish one after the other, and of one
\* whose threads have done so since they last met, holds the record published last;
\* a reader that opened it finds that record, however late it reads: the doc comment
\* of publish (src/role.rs:146), for any number of threads and readers, any texts and
\* any failures.
THEOREM RepublishIsWhole == Spec => []RepublishInvariant
<1>1. RepublishInvariant /\ [Next]_vars => RepublishInvariant'
  <2> SUFFICES ASSUME RepublishInvariant, [Next]_vars
               PROVE  RepublishInvariant'
    OBVIOUS
  <2>1. ASSUME NEW t \in Thread, Write(t)
        PROVE  RepublishInvariant'
    <3>1. \/ WriteAll(t, content[file[t]], ToText(draft[t]))
          \/ WriteSome(t, content[file[t]], ToText(draft[t]))
      BY <2>1 DEF Write
    <3> QED BY <2>1, <3>1, WriteAllPreserves, WriteSomePreserves
  <2>2. CASE UNCHANGED vars
    BY <2>2, StutterPreserves
  <2> QED
    BY <2>1, <2>2, BeginPreserves, CreatePreserves, SyncPreserves, RenamePreserves,
       TidyPreserves, DropPreserves, OpenPreserves, ReadPreserves DEF Next
<1> QED BY <1>1, InitEstablishes, PTL DEF Spec

\* What an onlooker is told of a tenant is what that tenant published last before the
\* onlooker opened the claim file (src/src/role.rs:125), for any records that can be
\* written, any number of threads and readers and any failures.
THEOREM OnlookersReadWhatWasPublished == Spec => []ReadsWhatWasPublished
<1>1. RepublishInvariant => ReadsWhatWasPublished
  <2> SUFFICES ASSUME RepublishInvariant, NEW o \in Reader, look[o].due # Nothing
               PROVE  Parse(content[look[o].file]) = Recovered(look[o].due)
    BY DEF ReadsWhatWasPublished
  <2>1. look[o].due \in Record /\ content[look[o].file] = ToText(look[o].due)
    BY DEF RepublishInvariant, TypeOK, ReaderHasRecord
  <2> QED BY <2>1, WrittenRecord, WrittenIsRead
<1> QED BY <1>1, RepublishIsWhole, PTL

\* When no thread is in publish and no write of a crowd has failed, the claim file of
\* a tenant can be read and names its pid, whichever threads met on the way.
THEOREM ACrowdLeavesARecord == Spec => []QuietIsLegible
<1>1. RepublishInvariant => QuietIsLegible
  <2> SUFFICES ASSUME RepublishInvariant, said # Nothing, Busy = {}, damage # "torn"
               PROVE  /\ claim # Nothing
                      /\ Parse(content[claim]).is = "Record"
                      /\ \E r \in Record : Parse(content[claim]).pid = r.pid
    BY DEF QuietIsLegible
  <2> DEFINE text == content[claim]
  <2>1. claim # Nothing /\ text \in Text /\ NamesTenant(text)
    <3>1. claim # Nothing /\ Sound(claim)
      BY DEF RepublishInvariant, FilesAreSound
    <3>2. \A t \in Thread : at[t] # "write"
      BY DEF Busy
    <3> QED BY <3>1, <3>2 DEF Sound, RepublishInvariant, TypeOK
  <2> HIDE DEF text
  <2>2. Parse(text).is = "Record" /\ Parse(text).pid = LastOf(text, "pid")
    <3>1. Legible(text) /\ LastOfEachCounts(text)
      BY <2>1, LastLineOfEachKeyCounts DEF NamesTenant
    <3> QED BY <3>1 DEF LastOfEachCounts, Numeric
  <2>3. LastOf(text, "pid") \in {r.pid : r \in Record}
    <3>1. ValuesOf(text, "pid") # {} /\ ValuesOf(text, "pid") \subseteq {r.pid : r \in Record}
      BY <2>1, LastOfThose DEF NamesTenant, Legible
    <3> QED BY <2>1, <3>1, LastOfThose
  <2> QED BY <2>1, <2>2, <2>3 DEF text
<1> QED BY <1>1, RepublishIsWhole, PTL

\* Whatever is in a file, parse reads it if and only if it is legible, and takes the
\* last line of each key (src/src/record.rs:196).
THEOREM AnyFileIsParsedByItsLastLines == Spec => []ParseIsLastOfEach
<1>1. RepublishInvariant => ParseIsLastOfEach
  <2> SUFFICES ASSUME RepublishInvariant, NEW i \in Inode
               PROVE  LastOfEachCounts(content[i])
    BY DEF ParseIsLastOfEach
  <2>1. content[i] \in Text
    BY DEF RepublishInvariant, TypeOK
  <2> QED BY <2>1, LastLineOfEachKeyCounts
<1> QED BY <1>1, RepublishIsWhole, PTL
=============================================================================
