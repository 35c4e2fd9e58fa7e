-------------------------- MODULE RecordTextProofs --------------------------
(***************************************************************************)
(* What Record::parse makes of any text, and of any record's own text, by  *)
(* induction on the lines read.                                            *)
(***************************************************************************)
EXTENDS RecordText, Loops

\* What the loop of parse can know.
Knowledge ==
  [Key \cup {"error"} ->
     Number \cup {Trimmed(i) : i \in Image} \cup {NotANumber(k) : k \in Numeric} \cup {Nothing}]

\* A turn of the loop keeps to it.
LEMMA LineKeepsKnowledge ==
  ASSUME NEW p \in Knowledge, NEW line \in TextLine
  PROVE  ParseLine(p, line) \in Knowledge
<1> USE DEF Line
<1>1. CASE p.error # Nothing \/ line.key \notin Key
  BY <1>1 DEF ParseLine
<1>2. CASE p.error = Nothing /\ line.key = "image"
  <2>1. line.value \in Image
    BY <1>2 DEF TextLine, Numeric
  <2> QED BY <1>2, <2>1 DEF ParseLine, Knowledge, Key, Numeric
<1>3. CASE p.error = Nothing /\ line.key \in Numeric
  <2>1. line.value \in Number /\ line.key # "image"
    BY <1>3 DEF TextLine, Numeric
  <2> QED BY <1>3, <2>1 DEF ParseLine, Knowledge, Key
<1> QED BY <1>1, <1>2, <1>3 DEF Key

\* The loop of parse, turn by turn.
LEMMA ProgressByLine ==
  ASSUME NEW text \in Text
  PROVE  /\ \A n \in 0 .. Len(text) : Progress(text)[n] \in Knowledge
         /\ Progress(text)[0] = Unread
         /\ \A n \in 0 .. Len(text) - 1 :
              Progress(text)[n + 1] = ParseLine(Progress(text)[n], text[n + 1])
<1> DEFINE turn == [n \in Nat |-> [p \in Knowledge |->
                      IF n \in 1 .. Len(text) THEN ParseLine(p, text[n]) ELSE p]]
<1>1. Len(text) \in Nat /\ \A n \in 1 .. Len(text) : text[n] \in TextLine
  BY DEF Text
<1>2. \A n \in Nat, p \in Knowledge : turn[n][p] \in Knowledge
  BY <1>1, LineKeepsKnowledge
<1>3. \A n \in 1 .. Len(text), p \in Knowledge : turn[n][p] = ParseLine(p, text[n])
  BY <1>1
<1>4. Unread \in Knowledge
  BY DEF Unread, Knowledge
<1> HIDE DEF turn
<1>5. PICK f : f \in Course(Knowledge, Unread, turn)
  <2>1. Course(Knowledge, Unread, turn) # {}
    BY ONLY <1>2, <1>4, CourseExists
  <2> QED BY <2>1
<1>6. /\ f \in [Nat -> Knowledge] /\ f[0] = Unread
      /\ \A n \in Nat : f[n + 1] = turn[n + 1][f[n]]
  BY <1>5 DEF Course
<1> DEFINE g == [n \in 0 .. Len(text) |-> f[n]]
<1>7. g = [n \in 0 .. Len(text) |->
             IF n = 0 THEN Unread ELSE ParseLine(g[n - 1], text[n])]
  <2>1. ASSUME NEW n \in 0 .. Len(text), n # 0
        PROVE  f[n] = ParseLine(f[n - 1], text[n])
    <3>1. n - 1 \in Nat /\ (n - 1) + 1 = n /\ n \in 1 .. Len(text)
      BY <1>1, <2>1
    <3>2. f[n] = turn[n][f[n - 1]] /\ f[n - 1] \in Knowledge
      BY <1>6, <3>1
    <3> QED BY <1>3, <3>1, <3>2
  <2>2. ASSUME NEW n \in 0 .. Len(text)
        PROVE  g[n] = IF n = 0 THEN Unread ELSE ParseLine(g[n - 1], text[n])
    <3>1. n # 0 => n - 1 \in 0 .. Len(text)
      BY <1>1
    <3> QED BY <1>6, <2>1, <3>1
  <2> HIDE DEF g
  <2> QED BY <2>2 DEF g
<1>8. Progress(text) = [n \in 0 .. Len(text) |->
                          IF n = 0 THEN Unread
                          ELSE ParseLine(Progress(text)[n - 1], text[n])]
  BY <1>7 DEF Progress
<1> DEFINE P == Progress(text)
<1> HIDE DEF P, g
<1>9. /\ P[0] = Unread
      /\ \A n \in 0 .. Len(text) - 1 : P[n + 1] = ParseLine(P[n], text[n + 1])
  BY <1>1, <1>8 DEF P
<1>10. \A n \in 0 .. Len(text) : P[n] \in Knowledge
  <2> DEFINE D == {n \in Nat : n <= Len(text) => P[n] \in Knowledge}
  <2>1. 0 \in D
    BY <1>4, <1>9
  <2>2. ASSUME NEW n \in Nat, n \in D
        PROVE  n + 1 \in D
    <3> SUFFICES ASSUME n + 1 <= Len(text)  PROVE P[n + 1] \in Knowledge
      OBVIOUS
    <3>1. n \in 0 .. Len(text) - 1 /\ n + 1 \in 1 .. Len(text) /\ P[n] \in Knowledge
      BY <1>1, <2>2
    <3> QED BY <1>1, <1>9, <3>1, LineKeepsKnowledge
  <2> HIDE DEF D
  <2>3. Nat \subseteq D
    BY <2>1, <2>2, InductionOnTurns
  <2> QED BY <1>1, <2>3 DEF D
<1> QED BY <1>9, <1>10 DEF P

Said(line) == IF line.key = "image" THEN Trimmed(line.value) ELSE line.value

\* The first n lines hold no number that is not one.
NumbersUpTo(text, n) ==
  \A i \in 1 .. n : text[i].key \in Numeric => IsNumber(text[i].key, text[i].value)

\* v is what the last of the first n lines with key k says, or Nothing without one.
LastUpTo(text, n, k, v) ==
  \/ v = Nothing /\ \A i \in 1 .. n : text[i].key # k
  \/ \E i \in 1 .. n :
       /\ text[i].key = k /\ v = Said(text[i])
       /\ \A j \in i + 1 .. n : text[j].key # k

\* The loop invariant of parse.
ReadUpTo(text, n) ==
  LET p == Progress(text)[n]
  IN  /\ p.error \in {NotANumber(k) : k \in Numeric} \cup {Nothing}
      /\ p.error = Nothing <=> NumbersUpTo(text, n)
      /\ p.error = Nothing => \A k \in Key : LastUpTo(text, n, k, p[k])

\* One turn of the loop reads one line more.
LEMMA NextLine ==
  ASSUME NEW text \in Text, NEW n \in Nat, n + 1 <= Len(text), ReadUpTo(text, n)
  PROVE  ReadUpTo(text, n + 1)
<1> DEFINE p == Progress(text)[n]
           q == Progress(text)[n + 1]
           line == text[n + 1]
<1>1. /\ Len(text) \in Nat /\ n \in 0 .. Len(text) - 1 /\ n + 1 \in 1 .. Len(text)
      /\ line \in TextLine
  BY DEF Text
<1>2. p \in Knowledge /\ q = ParseLine(p, line)
  BY <1>1, ProgressByLine
<1>3. /\ p.error \in {NotANumber(k) : k \in Numeric} \cup {Nothing}
      /\ p.error = Nothing <=> NumbersUpTo(text, n)
      /\ p.error = Nothing => \A k \in Key : LastUpTo(text, n, k, p[k])
  BY DEF ReadUpTo
<1>4. NumbersUpTo(text, n + 1) <=>
        NumbersUpTo(text, n) /\ (line.key \in Numeric => IsNumber(line.key, line.value))
  <2>1. \A i \in 1 .. n + 1 : i \in 1 .. n \/ i = n + 1
    OBVIOUS
  <2>2. 1 .. n \subseteq 1 .. n + 1 /\ n + 1 \in 1 .. n + 1
    OBVIOUS
  <2> QED BY <2>1, <2>2 DEF NumbersUpTo
<1>5. ASSUME NEW k, NEW v, line.key # k, LastUpTo(text, n, k, v)
      PROVE  LastUpTo(text, n + 1, k, v)
  <2>1. \A i, j \in Nat : j \in i .. n + 1 => j \in i .. n \/ j = n + 1
    OBVIOUS
  <2> QED BY <1>5, <2>1 DEF LastUpTo
<1>6. LastUpTo(text, n + 1, line.key, Said(line))
  <2>1. n + 1 \in 1 .. n + 1 /\ (n + 1) + 1 .. n + 1 = {}
    OBVIOUS
  <2> QED BY <2>1 DEF LastUpTo
<1> HIDE DEF p, q, line
<1>7. CASE p.error # Nothing \/ line.key \notin Key
  <2>1. q = p /\ (p.error = Nothing => line.key \notin Numeric)
    BY <1>2, <1>7 DEF ParseLine, Key
  <2>2. \A k \in Key : p.error = Nothing => line.key # k
    BY <1>7
  <2> QED BY <1>3, <1>4, <1>5, <2>1, <2>2 DEF ReadUpTo, q
<1>8. CASE p.error = Nothing /\ line.key = "image"
  <2>1. q = [p EXCEPT !["image"] = Said(line)] /\ line.key \notin Numeric
    BY <1>2, <1>8 DEF ParseLine, Said, Key, Numeric
  <2>2. /\ q.error = Nothing /\ q["image"] = Said(line)
        /\ \A k \in Key : k # "image" => q[k] = p[k]
    BY <1>2, <1>8, <2>1 DEF Knowledge, Key, Numeric
  <2>3. \A k \in Key : LastUpTo(text, n + 1, k, q[k])
    BY <1>3, <1>5, <1>6, <1>8, <2>2
  <2> QED BY <1>3, <1>4, <1>8, <2>1, <2>2, <2>3 DEF ReadUpTo, q
<1>9. CASE p.error = Nothing /\ line.key \in Numeric /\ IsNumber(line.key, line.value)
  <2>1. q = [p EXCEPT ![line.key] = Said(line)] /\ line.key \in Key \ {"image"}
    BY <1>2, <1>9 DEF ParseLine, Said, Key, Numeric
  <2>2. /\ q.error = Nothing /\ q[line.key] = Said(line)
        /\ \A k \in Key : k # line.key => q[k] = p[k]
    BY <1>2, <1>9, <2>1 DEF Knowledge, Key, Numeric
  <2>3. \A k \in Key : LastUpTo(text, n + 1, k, q[k])
    BY <1>3, <1>5, <1>6, <1>9, <2>2
  <2> QED BY <1>3, <1>4, <1>9, <2>2, <2>3 DEF ReadUpTo, q
<1>10. CASE p.error = Nothing /\ line.key \in Numeric /\ ~ IsNumber(line.key, line.value)
  <2>1. q = [p EXCEPT !["error"] = NotANumber(line.key)]
    BY <1>2, <1>10 DEF ParseLine, Key, Numeric
  <2>2. q.error = NotANumber(line.key) /\ q.error # Nothing
    BY <1>2, <1>10, <2>1, RecordTextConstants DEF Knowledge
  <2> QED BY <1>4, <1>10, <2>2 DEF ReadUpTo, q
<1> QED BY <1>7, <1>8, <1>9, <1>10 DEF Key

\* So after all turns the whole text has been read.
LEMMA ReadToTheEnd ==
  ASSUME NEW text \in Text
  PROVE  ReadUpTo(text, Len(text))
<1> DEFINE D == {n \in Nat : n <= Len(text) => ReadUpTo(text, n)}
<1>1. 0 \in D
  <2>1. Progress(text)[0] = Unread
    BY ProgressByLine
  <2>2. Unread.error = Nothing /\ \A k \in Key : Unread[k] = Nothing
    BY DEF Unread
  <2>3. 1 .. 0 = {}
    OBVIOUS
  <2> QED BY <2>1, <2>2, <2>3 DEF ReadUpTo, NumbersUpTo, LastUpTo
<1>2. ASSUME NEW n \in Nat, n \in D
      PROVE  n + 1 \in D
  <2>1. Len(text) \in Nat
    BY DEF Text
  <2> QED BY <1>2, <2>1, NextLine
<1> HIDE DEF D
<1>3. Nat \subseteq D
  BY <1>1, <1>2, InductionOnTurns
<1>4. Len(text) \in Nat
  BY DEF Text
<1> QED BY <1>3, <1>4 DEF D

-----------------------------------------------------------------------------
(* What the last line of each key says, without the loop.                  *)

\* A text is a sequence of lines.
LEMMA TextIsLines ==
  ASSUME NEW text \in Text
  PROVE  /\ Len(text) \in Nat /\ DOMAIN text = 1 .. Len(text)
         /\ \A i \in DOMAIN text : text[i] \in TextLine
BY DEF Text

\* The last line with a key, found by going through the lines, is the last one there is.
LEMMA LastIsLast ==
  ASSUME NEW text \in Text, NEW k, NEW v, LastUpTo(text, Len(text), k, v)
  PROVE  IF Of(text, k) = {} THEN v = Nothing
         ELSE \E i \in Of(text, k) : v = Said(text[i]) /\ LastOf(text, k) = text[i].value
<1>1. CASE v = Nothing /\ \A i \in 1 .. Len(text) : text[i].key # k
  <2>1. Of(text, k) = {}
    BY <1>1, TextIsLines DEF Of
  <2> QED BY <1>1, <2>1
<1>2. ASSUME NEW i \in 1 .. Len(text), text[i].key = k, v = Said(text[i]),
             \A j \in i + 1 .. Len(text) : text[j].key # k
      PROVE  i \in Of(text, k) /\ LastOf(text, k) = text[i].value
  <2> DEFINE O == Of(text, k)
  <2>1. i \in O
    BY <1>2, TextIsLines DEF Of
  <2>2. \A j \in O : j \in 1 .. Len(text) /\ text[j].key = k
    BY TextIsLines DEF Of
  <2>3. \A j \in O : j <= i
    BY <1>2, <2>2, TextIsLines
  <2>4. \A j \in O : i <= j => j = i
    BY <2>2, <2>3, TextIsLines
  <2> HIDE DEF O
  <2>5. (CHOOSE j \in O : \A h \in O : h <= j) = i
    BY <2>1, <2>3, <2>4
  <2> QED BY <2>1, <2>5 DEF LastOf, O
<1> QED BY <1>1, <1>2 DEF LastUpTo

\* What the last line of a key says is among what its lines say.
LEMMA LastOfThose ==
  ASSUME NEW text \in Text, NEW k
  PROVE  /\ ValuesOf(text, k) = {} <=> Of(text, k) = {}
         /\ ValuesOf(text, k) = {} => LastOf(text, k) = Nothing
         /\ ValuesOf(text, k) # {} => LastOf(text, k) \in ValuesOf(text, k)
<1> DEFINE O == Of(text, k)
<1>1. O \subseteq 1 .. Len(text) /\ Len(text) \in Nat
  BY TextIsLines DEF Of
<1>2. ASSUME O # {}
      PROVE  LastOf(text, k) \in ValuesOf(text, k)
  <2> HIDE DEF O
  <2>1. PICK i \in O : \A j \in O : j <= i
    BY <1>1, <1>2, LargestExists
  <2>2. (CHOOSE h \in O : \A j \in O : j <= h) \in O
    BY <2>1
  <2> QED BY <1>2, <2>2 DEF LastOf, ValuesOf, O
<1>3. ValuesOf(text, k) = {} <=> O = {}
  BY DEF ValuesOf
<1> QED BY <1>2, <1>3 DEF LastOf

\* A text without a bad number has none in the values of any numeric key.
LEMMA NumbersToTheEnd ==
  ASSUME NEW text \in Text
  PROVE  NumbersUpTo(text, Len(text))
           <=> \A k \in Numeric : \A v \in ValuesOf(text, k) : IsNumber(k, v)
BY TextIsLines DEF NumbersUpTo, ValuesOf, Of

\* parse reads a text if and only if every number is one and what is required is
\* there, and takes of each key what its last line says (src/src/record.rs:207),
\* however long the text is.
THEOREM LastLineOfEachKeyCounts ==
  ASSUME NEW text \in Text
  PROVE  LastOfEachCounts(text)
<1> DEFINE p == Progress(text)[Len(text)]
           parsed == Parse(text)
<1>1. ReadUpTo(text, Len(text))
  BY ReadToTheEnd
<1>2. p \in Knowledge
  BY TextIsLines, ProgressByLine
<1>3. /\ p.error \in {NotANumber(k) : k \in Numeric} \cup {Nothing}
      /\ p.error = Nothing <=> NumbersUpTo(text, Len(text))
      /\ p.error = Nothing => \A k \in Key : LastUpTo(text, Len(text), k, p[k])
  BY <1>1 DEF ReadUpTo
<1>4. CASE p.error # Nothing
  <2>1. PICK k \in Numeric : parsed = NotANumber(k)
    BY <1>3, <1>4 DEF Parse
  <2>2. parsed.is # "Record"
    BY <2>1 DEF NotANumber
  <2>3. ~ Legible(text)
    BY <1>3, <1>4, NumbersToTheEnd DEF Legible
  <2> QED BY <2>2, <2>3 DEF LastOfEachCounts
<1>5. CASE p.error = Nothing
  <2>1. ASSUME NEW k \in Numeric
        PROVE  p[k] = LastOf(text, k) /\ (p[k] = Nothing <=> Of(text, k) = {})
    <3>1. IF Of(text, k) = {} THEN p[k] = Nothing
          ELSE \E i \in Of(text, k) : p[k] = Said(text[i]) /\ LastOf(text, k) = text[i].value
      BY <1>3, <1>5, LastIsLast DEF Key
    <3>2. CASE Of(text, k) = {}
      BY <3>1, <3>2 DEF LastOf
    <3>3. CASE Of(text, k) # {}
      <4>1. PICK i \in Of(text, k) : p[k] = Said(text[i]) /\ LastOf(text, k) = text[i].value
        BY <3>1, <3>3
      <4>2. text[i].key = k /\ text[i].value \in ValuesOf(text, k)
        BY DEF Of, ValuesOf
      <4>3. IsNumber(k, text[i].value)
        BY <1>3, <1>5, <4>2, NumbersToTheEnd
      <4>4. text[i].value # Nothing
        BY <4>3, RecordTextConstants DEF IsNumber
      <4>5. p[k] = text[i].value
        BY <4>1, <4>2 DEF Said, Numeric
      <4> QED BY <3>3, <4>1, <4>4, <4>5
    <3> QED BY <3>2, <3>3
  <2>2. p.image = IF LastOf(text, "image") = Nothing THEN Nothing
                  ELSE Trimmed(LastOf(text, "image"))
    <3>1. IF Of(text, "image") = {} THEN p["image"] = Nothing
          ELSE \E i \in Of(text, "image") :
                 p["image"] = Said(text[i]) /\ LastOf(text, "image") = text[i].value
      BY <1>3, <1>5, LastIsLast DEF Key
    <3>2. CASE Of(text, "image") = {}
      BY <3>1, <3>2 DEF LastOf
    <3>3. CASE Of(text, "image") # {}
      <4>1. PICK i \in Of(text, "image") :
              p["image"] = Said(text[i]) /\ LastOf(text, "image") = text[i].value
        BY <3>1, <3>3
      <4>2. i \in DOMAIN text /\ text[i].key = "image"
        BY DEF Of
      <4>3. text[i].value \in Image
        BY <4>2, TextIsLines DEF TextLine, Line, Numeric
      <4>4. text[i].value # Nothing
        BY <4>3, RecordTextConstants
      <4> QED BY <4>1, <4>2, <4>4 DEF Said
    <3> QED BY <3>2, <3>3
  <2>3. Legible(text) <=> \A k \in {"run", "compat", "pid"} : p[k] # Nothing
    BY <1>3, <1>5, <2>1, NumbersToTheEnd DEF Legible, Numeric
  <2> HIDE DEF p
  <2>4. CASE Legible(text)
    <3>1. \A i \in DOMAIN Required : p[Required[i]] # Nothing
      BY <2>3, <2>4 DEF Required
    <3>2. parsed = [is |-> "Record", run |-> p.run, compat |-> p.compat, pid |-> p.pid,
                    started_at |-> p.started_at, image |-> p.image]
      BY <1>5, <3>1 DEF Parse, p
    <3>3. parsed.is = "Record" /\ parsed.image = p.image
          /\ \A k \in Numeric : parsed[k] = p[k]
      BY <3>2 DEF Numeric
    <3> QED BY <2>1, <2>2, <2>4, <3>3 DEF LastOfEachCounts
  <2>5. CASE ~ Legible(text)
    <3>1. \E i \in DOMAIN Required : p[Required[i]] = Nothing
      BY <2>3, <2>5 DEF Required
    <3>2. parsed = FirstMissing(p)
      BY <1>5, <3>1 DEF Parse, p
    <3>3. parsed.is # "Record"
      BY <3>2 DEF FirstMissing, Missing
    <3> QED BY <2>5, <3>3 DEF LastOfEachCounts
  <2> QED BY <2>4, <2>5
<1> QED BY <1>4, <1>5

-----------------------------------------------------------------------------
(* What the lines say of texts that are put together or cut.               *)

\* A text behind another one says what each of them says.
LEMMA TwoTexts ==
  ASSUME NEW a \in Text, NEW b \in Text
  PROVE  /\ a \o b \in Text
         /\ \A k : ValuesOf(a \o b, k) = ValuesOf(a, k) \cup ValuesOf(b, k)
<1> DEFINE c == a \o b
<1>1. c \in Text
  BY DEF Text
<1>2. /\ Len(a) \in Nat /\ Len(b) \in Nat /\ Len(c) = Len(a) + Len(b)
      /\ \A i \in 1 .. Len(a) : c[i] = a[i]
      /\ \A i \in 1 .. Len(b) : c[Len(a) + i] = b[i]
  BY DEF Text
<1>3. DOMAIN a = 1 .. Len(a) /\ DOMAIN b = 1 .. Len(b) /\ DOMAIN c = 1 .. Len(c)
  BY <1>1, TextIsLines
<1> HIDE DEF c
<1>4. ASSUME NEW k, NEW v \in ValuesOf(c, k)
      PROVE  v \in ValuesOf(a, k) \cup ValuesOf(b, k)
  <2>1. PICK i \in DOMAIN c : c[i].key = k /\ c[i].value = v
    BY DEF ValuesOf, Of
  <2>2. CASE i <= Len(a)
    <3>1. i \in DOMAIN a /\ a[i] = c[i]
      BY <1>2, <1>3, <2>2
    <3> QED BY <2>1, <3>1 DEF ValuesOf, Of
  <2>3. CASE Len(a) < i
    <3>1. i - Len(a) \in DOMAIN b /\ b[i - Len(a)] = c[i]
      BY <1>2, <1>3, <2>3
    <3> QED BY <2>1, <3>1 DEF ValuesOf, Of
  <2> QED BY <1>2, <1>3, <2>2, <2>3
<1>5. ASSUME NEW k, NEW v \in ValuesOf(a, k)
      PROVE  v \in ValuesOf(c, k)
  <2>1. PICK i \in DOMAIN a : a[i].key = k /\ a[i].value = v
    BY DEF ValuesOf, Of
  <2>2. i \in DOMAIN c /\ c[i] = a[i]
    BY <1>2, <1>3
  <2> QED BY <2>1, <2>2 DEF ValuesOf, Of
<1>6. ASSUME NEW k, NEW v \in ValuesOf(b, k)
      PROVE  v \in ValuesOf(c, k)
  <2>1. PICK i \in DOMAIN b : b[i].key = k /\ b[i].value = v
    BY DEF ValuesOf, Of
  <2>2. Len(a) + i \in DOMAIN c /\ c[Len(a) + i] = b[i]
    BY <1>2, <1>3
  <2> QED BY <2>1, <2>2 DEF ValuesOf, Of
<1> QED BY <1>1, <1>4, <1>5, <1>6 DEF c

\* A part of a text says nothing that the text does not.
LEMMA PartOfText ==
  ASSUME NEW a \in Text, NEW m \in Nat \ {0}, NEW n \in Nat, n <= Len(a)
  PROVE  /\ SubSeq(a, m, n) \in Text
         /\ \A k : ValuesOf(SubSeq(a, m, n), k) \subseteq ValuesOf(a, k)
<1> DEFINE c == SubSeq(a, m, n)
<1>1. /\ Len(a) \in Nat /\ c \in Text
      /\ Len(c) = IF m <= n THEN n - m + 1 ELSE 0
      /\ \A i \in 1 .. Len(c) : c[i] = a[m + i - 1] /\ m + i - 1 \in 1 .. Len(a)
  BY DEF Text
<1>2. DOMAIN a = 1 .. Len(a) /\ DOMAIN c = 1 .. Len(c)
  BY <1>1, TextIsLines
<1> HIDE DEF c
<1>3. ASSUME NEW k, NEW v \in ValuesOf(c, k)
      PROVE  v \in ValuesOf(a, k)
  <2>1. PICK i \in DOMAIN c : c[i].key = k /\ c[i].value = v
    BY DEF ValuesOf, Of
  <2>2. m + i - 1 \in DOMAIN a /\ a[m + i - 1] = c[i]
    BY <1>1, <1>2
  <2> QED BY <2>1, <2>2 DEF ValuesOf, Of
<1> QED BY <1>1, <1>3 DEF c

\* An empty text says nothing.
LEMMA EmptyText ==
  <<>> \in Text /\ \A k : ValuesOf(<<>>, k) = {}
BY DEF Text, ValuesOf, Of

\* A single line says its value of its key.
LEMMA OneLine ==
  ASSUME NEW line \in TextLine
  PROVE  /\ <<line>> \in Text
         /\ \A k : ValuesOf(<<line>>, k) = IF line.key = k THEN {line.value} ELSE {}
<1>1. <<line>> \in Text
  BY DEF Text
<1>2. DOMAIN <<line>> = {1} /\ <<line>>[1] = line
  OBVIOUS
<1> QED BY <1>1, <1>2 DEF ValuesOf, Of

\* Four lines say what each of them says.
LEMMA FourLines ==
  ASSUME NEW a \in TextLine, NEW b \in TextLine, NEW c \in TextLine, NEW d \in TextLine
  PROVE  /\ <<a, b, c, d>> \in Text
         /\ \A k : ValuesOf(<<a, b, c, d>>, k)
                     = {line.value : line \in {l \in {a, b, c, d} : l.key = k}}
<1> DEFINE text == <<a, b, c, d>>
<1>1. text \in Text
  BY DEF Text
<1>2. /\ DOMAIN text = {1, 2, 3, 4}
      /\ text[1] = a /\ text[2] = b /\ text[3] = c /\ text[4] = d
  OBVIOUS
<1> HIDE DEF text
<1>3. \A k : ValuesOf(text, k) = {line.value : line \in {l \in {a, b, c, d} : l.key = k}}
  BY <1>2 DEF ValuesOf, Of
<1> QED BY <1>1, <1>3 DEF text

\* What the lines of a record's text say: each fact once.
Facts(r, k) ==
  CASE k \in {"run", "compat", "pid"} -> {r[k]}
    [] k = "started_at" -> IF r.started_at = Nothing THEN {} ELSE {r.started_at}
    [] k = "image" -> IF Shown(r.image) THEN {r.image} ELSE {}

\* to_text writes each fact once, and nothing else that would be read.
LEMMA ToTextSaysEachFact ==
  ASSUME NEW r, Writable(r)
  PROVE  /\ ToText(r) \in Text
         /\ \A k \in Key : ValuesOf(ToText(r), k) = Facts(r, k)
<1> DEFINE other == Line("other", Nothing)
           head == <<other, Line("run", r.run), Line("compat", r.compat),
                     Line("pid", r.pid)>>
           start == IF r.started_at = Nothing THEN <<>>
                    ELSE <<Line("started_at", r.started_at)>>
           image == IF Shown(r.image) THEN <<Line("image", r.image)>> \o r.image.rest
                    ELSE <<>>
<1>1. /\ other \in TextLine
      /\ \A k \in Numeric, v \in 0 .. U64 : Line(k, v) \in TextLine
      /\ \A i \in Image : Line("image", i) \in TextLine
  BY RecordTextConstants DEF TextLine, Line
<1>2. 0 .. U32 \subseteq 0 .. U64
  BY RecordTextConstants
<1>3. \A k, v : Line(k, v).key = k /\ Line(k, v).value = v
  BY DEF Line
<1>4. head \in Text /\ \A k \in Key :
        ValuesOf(head, k) = IF k \in {"run", "compat", "pid"} THEN {r[k]} ELSE {}
  <2>1. /\ Line("run", r.run) \in TextLine /\ Line("compat", r.compat) \in TextLine
        /\ Line("pid", r.pid) \in TextLine
    BY <1>1, <1>2 DEF Writable, Numeric
  <2> HIDE DEF other
  <2>2. /\ head \in Text
        /\ \A k : ValuesOf(head, k) =
             {line.value : line \in {l \in {other, Line("run", r.run),
                Line("compat", r.compat), Line("pid", r.pid)} : l.key = k}}
    BY <1>1, <2>1, FourLines
  <2>3. other.key = "other"
    BY <1>3 DEF other
  <2> HIDE DEF head
  <2>4. ASSUME NEW k \in Key
        PROVE  ValuesOf(head, k) = IF k \in {"run", "compat", "pid"} THEN {r[k]} ELSE {}
    BY <1>3, <2>2, <2>3 DEF Key, Numeric
  <2> QED BY <2>2, <2>4
<1>5. start \in Text /\ \A k \in Key :
        ValuesOf(start, k) = IF k = "started_at" /\ r.started_at # Nothing
                             THEN {r.started_at} ELSE {}
  <2>1. CASE r.started_at = Nothing
    BY <2>1, EmptyText
  <2>2. CASE r.started_at # Nothing
    <3>1. Line("started_at", r.started_at) \in TextLine
      BY <1>1, <2>2 DEF Writable, Numeric
    <3> QED BY <1>3, <2>2, <3>1, OneLine
  <2> QED BY <2>1, <2>2
<1>6. image \in Text /\ \A k \in Key :
        ValuesOf(image, k) = IF k = "image" /\ Shown(r.image) THEN {r.image} ELSE {}
  <2>1. CASE ~ Shown(r.image)
    BY <2>1, EmptyText
  <2>2. CASE Shown(r.image)
    <3> DEFINE line == Line("image", r.image)
               rest == r.image.rest
    <3>1. line \in TextLine /\ rest \in Seq({other})
      BY <1>1, <2>2 DEF Writable
    <3>2. rest \in Text /\ \A i \in DOMAIN rest : rest[i] = other
      <4> HIDE DEF other, rest
      <4> QED BY <1>1, <3>1 DEF Text
    <3>3. \A k \in Key : ValuesOf(rest, k) = {}
      <4>1. \A k \in Key : k # "other"
        BY DEF Key, Numeric
      <4> HIDE DEF rest
      <4> QED BY <1>3, <3>2, <4>1 DEF ValuesOf, Of
    <3>4. <<line>> \in Text /\ \A k : ValuesOf(<<line>>, k) =
            IF line.key = k THEN {line.value} ELSE {}
      BY <3>1, OneLine
    <3>5. image = <<line>> \o rest
      BY <2>2
    <3> HIDE DEF line, rest, image
    <3>6. image \in Text
          /\ \A k : ValuesOf(image, k) = ValuesOf(<<line>>, k) \cup ValuesOf(rest, k)
      BY <3>2, <3>4, <3>5, TwoTexts
    <3>7. line.key = "image" /\ line.value = r.image
      BY <1>3 DEF line
    <3> QED BY <2>2, <3>3, <3>4, <3>6, <3>7
  <2> QED BY <2>1, <2>2
<1>7. ToText(r) = (head \o start) \o image
  BY DEF ToText
<1> HIDE DEF head, start, image
<1>8. /\ ToText(r) \in Text
      /\ \A k : ValuesOf(ToText(r), k)
                  = (ValuesOf(head, k) \cup ValuesOf(start, k)) \cup ValuesOf(image, k)
  <2>1. head \o start \in Text /\ \A k :
          ValuesOf(head \o start, k) = ValuesOf(head, k) \cup ValuesOf(start, k)
    BY <1>4, <1>5, TwoTexts
  <2> DEFINE both == head \o start
  <2> HIDE DEF both
  <2>2. both \o image \in Text /\ \A k :
          ValuesOf(both \o image, k) = ValuesOf(both, k) \cup ValuesOf(image, k)
    BY <1>6, <2>1, TwoTexts DEF both
  <2> QED BY <1>7, <2>1, <2>2 DEF both
<1>9. ASSUME NEW k \in Key
      PROVE  ValuesOf(ToText(r), k) = Facts(r, k)
  BY <1>4, <1>5, <1>6, <1>8 DEF Facts, Key, Numeric
<1> QED BY <1>8, <1>9

\* What to_text writes can be read.
LEMMA ToTextIsLegible ==
  ASSUME NEW r, Writable(r)
  PROVE  Legible(ToText(r))
<1>1. ToText(r) \in Text /\ \A k \in Key : ValuesOf(ToText(r), k) = Facts(r, k)
  BY ToTextSaysEachFact
<1> DEFINE text == ToText(r)
<1> HIDE DEF text
<1>2. \A k \in {"run", "compat", "pid"} : Of(text, k) # {}
  <2>1. \A k \in {"run", "compat", "pid"} : ValuesOf(text, k) # {}
    BY <1>1 DEF text, Facts, Key, Numeric
  <2> QED BY <1>1, <2>1, LastOfThose DEF text
<1>3. ASSUME NEW k \in Numeric, NEW v \in ValuesOf(text, k)
      PROVE  IsNumber(k, v)
  <2>1. v \in Facts(r, k)
    BY <1>1 DEF text, Key
  <2>2. CASE k \in {"run", "compat", "pid"}
    BY <2>1, <2>2 DEF Facts, Writable, IsNumber
  <2>3. CASE k = "started_at"
    BY <2>1, <2>3 DEF Facts, Writable, IsNumber
  <2> QED BY <2>2, <2>3 DEF Numeric
<1> QED BY <1>2, <1>3 DEF Legible, text

\* When parse answers with a record, it has the fields of one.
LEMMA ParsedIsRecord ==
  ASSUME NEW text \in Text, Parse(text).is = "Record"
  PROVE  LET parsed == Parse(text)
         IN  parsed = [is |-> "Record", run |-> parsed.run, compat |-> parsed.compat,
                       pid |-> parsed.pid, started_at |-> parsed.started_at,
                       image |-> parsed.image]
<1> DEFINE p == Progress(text)[Len(text)]
<1>1. p.error \in {NotANumber(k) : k \in Numeric} \cup {Nothing}
  BY ReadToTheEnd DEF ReadUpTo
<1>2. p.error = Nothing
  BY <1>1 DEF Parse, NotANumber
<1>3. ~ \E i \in DOMAIN Required : p[Required[i]] = Nothing
  BY <1>2 DEF Parse, FirstMissing, Missing
<1>4. Parse(text) = [is |-> "Record", run |-> p.run, compat |-> p.compat, pid |-> p.pid,
                     started_at |-> p.started_at, image |-> p.image]
  BY <1>2, <1>3 DEF Parse
<1> QED BY <1>4

\* Record::parse gives back what Record::to_text was given, of an image that is text
\* its first line without the blanks around it, and of another none.
THEOREM WrittenIsRead ==
  ASSUME NEW r, Writable(r)
  PROVE  Parse(ToText(r)) = Recovered(r)
<1> DEFINE text == ToText(r)
           parsed == Parse(text)
<1>1. text \in Text /\ \A k \in Key : ValuesOf(text, k) = Facts(r, k)
  BY ToTextSaysEachFact
<1>2. Legible(text)
  BY ToTextIsLegible
<1> HIDE DEF text
<1>3. /\ parsed.is = "Record"
      /\ \A k \in Numeric : parsed[k] = LastOf(text, k)
      /\ parsed.image = IF LastOf(text, "image") = Nothing THEN Nothing
                        ELSE Trimmed(LastOf(text, "image"))
  BY <1>1, <1>2, LastLineOfEachKeyCounts DEF LastOfEachCounts
<1>4. \A k \in Key : LastOf(text, k) = IF Facts(r, k) = {} THEN Nothing
                                       ELSE CHOOSE v \in Facts(r, k) : TRUE
  BY <1>1, LastOfThose DEF Facts, Key, Numeric
<1>5. /\ \A k \in {"run", "compat", "pid"} : LastOf(text, k) = r[k]
      /\ LastOf(text, "started_at") = r.started_at
      /\ LastOf(text, "image") = IF Shown(r.image) THEN r.image ELSE Nothing
  BY <1>4 DEF Facts, Key, Numeric
<1>6. Shown(r.image) => r.image # Nothing
  BY DEF Shown
<1>7. parsed = [is |-> "Record", run |-> parsed.run, compat |-> parsed.compat,
                pid |-> parsed.pid, started_at |-> parsed.started_at,
                image |-> parsed.image]
  BY <1>1, <1>3, ParsedIsRecord
<1> HIDE DEF parsed
<1>8. /\ parsed.run = r.run /\ parsed.compat = r.compat /\ parsed.pid = r.pid
      /\ parsed.started_at = r.started_at
      /\ parsed.image = IF Shown(r.image) THEN Trimmed(r.image) ELSE Nothing
  BY <1>3, <1>5, <1>6 DEF Numeric
<1>9. parsed = Recovered(r)
  BY <1>3, <1>7, <1>8 DEF Recovered
<1> QED BY <1>9 DEF parsed, text
=============================================================================
