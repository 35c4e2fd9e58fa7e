------------------------------- MODULE Tenant -------------------------------
(***************************************************************************)
(* What a claim record says of the process that wrote it, and whether a    *)
(* live process is that one (src/src/record.rs).  Facts are records with   *)
(* fields pid, startedAt and image; the last two may be None.              *)
(***************************************************************************)
CONSTANT None  \* a fact nobody could supply

\* Corroboration::of: a fact only one side knows says nothing.
Corroboration(recorded, live) ==
  IF recorded = None \/ live = None THEN "Unknown"
  ELSE IF recorded = live THEN "Confirms" ELSE "Contradicts"

Corroborations(recorded, live) ==
  {Corroboration(recorded.startedAt, live.startedAt),
   Corroboration(recorded.image, live.image)}

\* Mutant of Compare: the start time, the one fact a reused pid cannot share, is
\* not looked at.
CompareImageOnly(recorded, live) ==
  IF recorded.pid # live.pid THEN "Different"
  ELSE CASE Corroboration(recorded.image, live.image) = "Contradicts" -> "Different"
         [] Corroboration(recorded.image, live.image) = "Confirms" -> "Same"
         [] OTHER -> "Inconclusive"

\* Mutant of Compare: a fact that cannot be confirmed counts against the process.
CompareStrictly(recorded, live) ==
  IF recorded.pid = live.pid /\ Corroborations(recorded, live) = {"Confirms"}
    THEN "Same" ELSE "Different"

\* Tenant::compare: one contradiction refutes, else one confirmation suffices.
Compare(recorded, live) ==
  IF recorded.pid # live.pid \/ "Contradicts" \in Corroborations(recorded, live)
    THEN "Different"
  ELSE IF "Confirms" \in Corroborations(recorded, live)
    THEN "Same"
  ELSE "Inconclusive"
=============================================================================
