----------------------------- MODULE RecordText -----------------------------
(***************************************************************************)
(* The text of a claim record (src/src/record.rs): Record::to_text and     *)
(* Record::parse.  A text is a sequence of lines, a line a key and a       *)
(* value.  "other" stands for every line that parse passes over: a         *)
(* comment, the header, a blank line, one without "=", an unknown key.     *)
(***************************************************************************)
EXTENDS Naturals, Sequences

CONSTANTS
  U32, U64,   \* the largest u32 and u64
  Number,     \* what a line with a numeric key may say
  Image,      \* the paths there are
  Nothing     \* None, and what is not there

Numeric == {"run", "compat", "pid", "started_at"}
Key == Numeric \cup {"image"}
Required == <<"run", "compat", "pid">>
Line(key, value) == [key |-> key, value |-> value]
NotANumber(key) == [is |-> "NotANumber", key |-> key]
Missing(key) == [is |-> "Missing", key |-> key]

ASSUME RecordTextConstants ==
  /\ U32 \in Nat /\ U64 \in Nat /\ U32 <= U64
  /\ 0 .. U64 \subseteq Number
  /\ Nothing \notin Nat \cup Image
  /\ \A k \in Numeric : Nothing # NotANumber(k)

TextLine ==
  [key : Numeric, value : Number] \cup [key : {"image"}, value : Image]
    \cup {Line("other", Nothing)}
Text == Seq(TextLine)

(***************************************************************************)
(* An image is a path: text or not (utf8), its first line, whether that    *)
(* has blanks at an edge (padded), and the lines after a line break.       *)
(***************************************************************************)
Shown(image) == image # Nothing /\ image.utf8

\* to_text.  A start time or an image that is not known is left out, and so is an
\* image whose path is no text; an image that is text goes in as it is.
ToText(r) ==
  <<Line("other", Nothing), Line("run", r.run), Line("compat", r.compat),
    Line("pid", r.pid)>>
    \o (IF r.started_at = Nothing THEN <<>>
                                  ELSE <<Line("started_at", r.started_at)>>)
    \o (IF Shown(r.image) THEN <<Line("image", r.image)>> \o r.image.rest ELSE <<>>)

\* The image a line of text gives: the rest of the path was another line.
Trimmed(image) == [image EXCEPT !.padded = FALSE, !.rest = <<>>]

\* number, and for a pid u32::try_from after it.
IsNumber(key, value) == value \in 0 .. (IF key = "pid" THEN U32 ELSE U64)

Unread == [k \in Key \cup {"error"} |-> Nothing]

\* Mutant of ParseLine: the first line of a key counts.
ParseLineFirst(p, line) ==
  IF line.key \in Numeric /\ p[line.key] = Nothing /\ IsNumber(line.key, line.value)
    THEN [p EXCEPT ![line.key] = line.value] ELSE p

\* One turn of parse's loop; after an error there is none.
ParseLine(p, line) ==
  IF p.error # Nothing \/ line.key \notin Key THEN p
  ELSE IF line.key = "image" THEN [p EXCEPT !["image"] = Trimmed(line.value)]
  ELSE IF IsNumber(line.key, line.value) THEN [p EXCEPT ![line.key] = line.value]
  ELSE [p EXCEPT !["error"] = NotANumber(line.key)]

\* What parse knows after each line.
Progress(text) ==
  LET p[n \in 0 .. Len(text)] == IF n = 0 THEN Unread ELSE ParseLine(p[n - 1], text[n])
  IN  p

\* The error of the first key that is required and missing.
FirstMissing(p) ==
  LET missing == {i \in DOMAIN Required : p[Required[i]] = Nothing}
  IN  Missing(Required[CHOOSE i \in missing : \A j \in missing : i <= j])

\* parse: a record, or what is wrong with the text.
Parse(text) ==
  LET p == Progress(text)[Len(text)]
  IN  IF p.error # Nothing THEN p.error
      ELSE IF \E i \in DOMAIN Required : p[Required[i]] = Nothing THEN FirstMissing(p)
      ELSE [is |-> "Record", run |-> p.run, compat |-> p.compat, pid |-> p.pid,
            started_at |-> p.started_at, image |-> p.image]

-----------------------------------------------------------------------------
(* What reading a text back should mean, said without the loop.            *)

Of(text, k) == {i \in DOMAIN text : text[i].key = k}
ValuesOf(text, k) == {text[i].value : i \in Of(text, k)}
LastOf(text, k) ==
  IF Of(text, k) = {} THEN Nothing
  ELSE text[CHOOSE i \in Of(text, k) : \A j \in Of(text, k) : j <= i].value

\* Every number is one, and no key that is required is missing.
Legible(text) ==
  /\ \A k \in Numeric : \A v \in ValuesOf(text, k) : IsNumber(k, v)
  /\ \A k \in {"run", "compat", "pid"} : Of(text, k) # {}

\* A text is read if and only if it is legible, and the last line of each key counts.
LastOfEachCounts(text) ==
  LET parsed == Parse(text)
  IN  /\ (parsed.is = "Record") <=> Legible(text)
      /\ Legible(text) =>
           /\ \A k \in Numeric : parsed[k] = LastOf(text, k)
           /\ parsed.image = IF LastOf(text, "image") = Nothing THEN Nothing
                             ELSE Trimmed(LastOf(text, "image"))

\* A record as the types of its fields allow; a path that is more than one line has
\* no line in it that would be read as a fact.
Writable(r) ==
  /\ r.run \in 0 .. U64 /\ r.compat \in 0 .. U64 /\ r.pid \in 0 .. U32
  /\ r.started_at \in (0 .. U64) \cup {Nothing}
  /\ Shown(r.image) => r.image \in Image /\ r.image.rest \in Seq({Line("other", Nothing)})

\* What a record says once it has been written and read.
Recovered(r) ==
  [is |-> "Record", run |-> r.run, compat |-> r.compat, pid |-> r.pid,
   started_at |-> r.started_at,
   image |-> IF Shown(r.image) THEN Trimmed(r.image) ELSE Nothing]
=============================================================================
